---- MODULE Spec2Model ----
(***************************************************************************)
(* Model of the scratchpad's multi-language execution engine:              *)
(* src/execution/engine.js (ExecutionEngine), src/execution/javascript.js, *)
(* src/execution/python.js, src/execution/executor.js, the results         *)
(* register of src/unnamed/part_000 (registers.js) and the result          *)
(* formatter of src/execution/formatters.js.                               *)
(*                                                                         *)
(* JavaScript is single threaded: every action below is one synchronous    *)
(* run of code, up to the next await.  Continuations of awaits are jobs of *)
(* the FIFO microtask queue.                                               *)
(***************************************************************************)
EXTENDS Integers, Sequences, FiniteSets, TLC

VARIABLES
    executors,        \* ExecutionEngine.executors: Map key -> executor instance
    defaultLanguage,  \* ExecutionEngine.defaultLanguage
    regLog,           \* the registerExecutor calls made so far, in order
    setDefaultResult, \* what the last setDefaultLanguage call did
    py,               \* per PythonExecutor instance: pyodide, isLoading, loadPromise
    loadCount,        \* per PythonExecutor instance: _loadPyodide calls so far
    calls,            \* the execute / executeFromRegister invocations
    microtasks,       \* FIFO queue of pending await continuations
    keyBuffer,        \* registers["r"].keyBuffer of the vim register controller
    storeLog,         \* the storeResult calls that wrote, in order
    execOrder,        \* the calls whose executor's promise has settled, in order
    pushTextApi,      \* whether registerController.pushText exists
    storeOps,         \* the direct storeResult / clearResults calls, in order
    fmtInput,         \* the argument of the formatter call under study
    fmtOutput         \* what that call returned or threw

vars == <<executors, defaultLanguage, regLog, setDefaultResult, py, loadCount,
          calls, microtasks, keyBuffer, storeLog, execOrder,
          pushTextApi, storeOps, fmtInput, fmtOutput>>

\* what the engine's operations never touch
toolVars == <<pushTextApi, storeOps, fmtInput, fmtOutput>>

(***************************************************************************)
(* Bounds of the model.                                                    *)
(***************************************************************************)
MaxCalls == 2
MaxRegs == 1
MaxOps == 3
MaxStrLen == 3
MaxNum == 3
MaxKeys == 2
MaxTextLen == 4
MaxItems == 2

(***************************************************************************)
(* Strings are sequences of pieces; a piece is one character, or a fixed   *)
(* fragment of a message template.  Concatenation is \o.                   *)
(***************************************************************************)
UpperChars == <<"A", "B", "C", "D", "E", "F", "G", "H", "I", "J", "K", "L", "M",
                "N", "O", "P", "Q", "R", "S", "T", "U", "V", "W", "X", "Y", "Z">>
LowerChars == <<"a", "b", "c", "d", "e", "f", "g", "h", "i", "j", "k", "l", "m",
                "n", "o", "p", "q", "r", "s", "t", "u", "v", "w", "x", "y", "z">>

ToLowerChar(ch) ==
    IF \E i \in DOMAIN UpperChars : UpperChars[i] = ch
    THEN LowerChars[CHOOSE i \in DOMAIN UpperChars : UpperChars[i] = ch]
    ELSE ch

\* String.prototype.toLowerCase
ToLowerCase(s) == [i \in DOMAIN s |-> ToLowerChar(s[i])]

IsSpace(ch) == ch \in {" ", "\n", "\t", "\r"}

RECURSIVE TrimStart(_)
TrimStart(s) ==
    IF s # <<>> /\ IsSpace(Head(s)) THEN TrimStart(Tail(s)) ELSE s

RECURSIVE TrimEnd(_)
TrimEnd(s) ==
    IF s # <<>> /\ IsSpace(s[Len(s)]) THEN TrimEnd(SubSeq(s, 1, Len(s) - 1)) ELSE s

\* String.prototype.trim
Trim(s) == TrimEnd(TrimStart(s))

(***************************************************************************)
(* JavaScript values are tagged records.                                   *)
(***************************************************************************)
Undefined == [t |-> "undefined"]
Null == [t |-> "null"]
Str(s) == [t |-> "string", s |-> s]
Num(n) == [t |-> "number", n |-> n]
Bool(b) == [t |-> "boolean", b |-> b]
\* a thenable (promise) an evaluated program returned
Thenable == [t |-> "thenable"]
\* a Pyodide proxy: an object with a toJs() method giving js
PyProxy(js) == [t |-> "pyproxy", js |-> js]
\* new Error(message)
Err(message) == [t |-> "error", message |-> message]
\* the Pyodide runtime object a successful load produces
Runtime(p, n) == [t |-> "runtime", of |-> p, load |-> n]
\* an object made by the constructor named ctor, with own properties props
\* (a sequence of <<key, value>>); trait says what JSON.stringify meets:
\* "plain" data, a "cyclic" reference, or a "toJSON" method giving undefined
Obj(ctor, props, trait) == [t |-> "object", ctor |-> ctor, props |-> props, trait |-> trait]
\* a Date; an invalid one has no ISO form
DateValue(valid) == [t |-> "date", valid |-> valid]
\* an array
Arr(items) == [t |-> "array", items |-> items]

IsString(v) == v.t = "string"
\* !v for the values of the model
Falsy(v) ==
    \/ v.t \in {"undefined", "null"}
    \/ v.t = "string" /\ v.s = <<>>
    \/ v.t = "number" /\ v.n = 0
    \/ v.t = "boolean" /\ ~v.b

(***************************************************************************)
(* Result formatter (src/execution/formatters.js).                         *)
(***************************************************************************)
DigitChars == <<"0", "1", "2", "3", "4", "5", "6", "7", "8", "9">>

RECURSIVE NatToString(_)
NatToString(n) ==
    IF n < 10 THEN <<DigitChars[n + 1]>>
    ELSE NatToString(n \div 10) \o <<DigitChars[(n % 10) + 1]>>

\* Number.prototype.toString for the integers of the model
NumberToString(n) == IF n < 0 THEN <<"-">> \o NatToString(0 - n) ELSE NatToString(n)

\* the escape JSON.stringify writes for one character of a string
JsonEscapeChar(ch) ==
    CASE ch = "\"" -> <<"\\", "\"">>
      [] ch = "\\" -> <<"\\", "\\">>
      [] ch = "\n" -> <<"\\", "n">>
      [] ch = "\t" -> <<"\\", "t">>
      [] ch = "\r" -> <<"\\", "r">>
      [] OTHER -> <<ch>>

RECURSIVE JsonEscape(_)
JsonEscape(s) ==
    IF s = <<>> THEN <<>> ELSE JsonEscapeChar(Head(s)) \o JsonEscape(Tail(s))

\* JSON.stringify(str) for a string
JsonStringifyString(s) == <<"\"">> \o JsonEscape(s) \o <<"\"">>

Includes(s, ch) == \E i \in DOMAIN s : s[i] = ch

formatString(s) ==
    IF Includes(s, "\n") \/ Includes(s, "\t") \/ Includes(s, "\"")
    THEN JsonStringifyString(s)
    ELSE s

formatNumber(n) == NumberToString(n)

\* a function whose source text, fn.toString(), is src
Fn(src) == [t |-> "function", src |-> src]
\* a function with a toString method of its own that throws the value thrown
FnThrowing(thrown) == [t |-> "function", src |-> <<>>, thrown |-> thrown]

\* fn.toString() (formatters.js:61): the text, or the value thrown
FnToString(fn) ==
    IF "thrown" \in DOMAIN fn THEN [ok |-> FALSE, v |-> fn.thrown]
    ELSE [ok |-> TRUE, v |-> fn.src]

StartsWith(s, prefix) == Len(s) >= Len(prefix) /\ SubSeq(s, 1, Len(prefix)) = prefix

Drop(s, n) == SubSeq(s, n + 1, Len(s))

\* the number of whitespace characters s begins with
RECURSIVE LeadingSpaces(_)
LeadingSpaces(s) ==
    IF s # <<>> /\ Head(s) \in {" ", "\n", "\t", "\r"} THEN 1 + LeadingSpaces(Tail(s)) ELSE 0

\* the position of the first ch in s, 0 when there is none
IndexOf(s, ch) ==
    IF \E i \in DOMAIN s : s[i] = ch
    THEN CHOOSE i \in DOMAIN s : s[i] = ch /\ \A j \in 1..(i - 1) : s[j] # ch
    ELSE 0

NoMatch == [ok |-> FALSE, asyncPrefix |-> <<>>, name |-> <<>>]

\* fnString.match(/^(async\s+)?function\s*([^(]*)\s*\([^)]*\)/): the groups
MatchFunction(fnString) ==
    LET word == <<"a", "s", "y", "n", "c">>
        afterWord == Drop(fnString, Len(word))
        hasAsync == StartsWith(fnString, word) /\ LeadingSpaces(afterWord) >= 1
        asyncPrefix == IF hasAsync
                       THEN SubSeq(fnString, 1, Len(word) + LeadingSpaces(afterWord))
                       ELSE <<>>
        rest == Drop(fnString, Len(asyncPrefix))
        keyword == <<"f", "u", "n", "c", "t", "i", "o", "n">>
        afterKeyword == Drop(rest, Len(keyword))
        tail == Drop(afterKeyword, LeadingSpaces(afterKeyword))
        open == IndexOf(tail, "(") IN
    IF StartsWith(rest, keyword) /\ open > 0 /\ IndexOf(Drop(tail, open), ")") > 0
    THEN [ok |-> TRUE, asyncPrefix |-> asyncPrefix, name |-> SubSeq(tail, 1, open - 1)]
    ELSE NoMatch

\* fnString.match(/^(async\s*)?\([^)]*\)\s*=>/): the groups
MatchArrow(fnString) ==
    LET word == <<"a", "s", "y", "n", "c">>
        afterWord == Drop(fnString, Len(word))
        hasAsync == StartsWith(fnString, word)
        asyncPrefix == IF hasAsync
                       THEN SubSeq(fnString, 1, Len(word) + LeadingSpaces(afterWord))
                       ELSE <<>>
        rest == Drop(fnString, Len(asyncPrefix))
        close == IndexOf(rest, ")")
        afterClose == Drop(rest, close) IN
    IF /\ StartsWith(rest, <<"(">>) /\ close > 0
       /\ StartsWith(Drop(afterClose, LeadingSpaces(afterClose)), <<"=", ">">>)
    THEN [ok |-> TRUE, asyncPrefix |-> asyncPrefix, name |-> <<>>]
    ELSE NoMatch

\* formatFunction (formatters.js:59-84), where fn.toString() returns
formatFunction(fn) ==
    LET fnString == FnToString(fn).v
        match == MatchFunction(fnString)
        arrowMatch == MatchArrow(fnString) IN
    IF Len(fnString) < 100 /\ ~\E i \in DOMAIN fnString : fnString[i] = "\n"
    THEN fnString
    ELSE IF match.ok
    THEN match.asyncPrefix \o <<"function ">>
         \o (IF match.name = <<>> THEN <<"<anonymous>">> ELSE match.name)
         \o <<"() { ... }">>
    ELSE IF arrowMatch.ok
    THEN IF Len(fnString) < 50 THEN fnString
         ELSE arrowMatch.asyncPrefix \o <<"(...) => { ... }">>
    ELSE <<"[Function]">>

\* new Date(0).toISOString()
DateIsoText == <<"1970-01-01T00:00:00.000Z">>

\* the line break and indentation JSON.stringify writes before an item
Break(gap, level) == IF gap = 0 THEN <<>> ELSE <<"\n">> \o [i \in 1..(gap * level) |-> " "]

\* JSON.stringify(v, null, gap) for the data of the model, at nesting level
RECURSIVE Stringify(_, _, _), StringifyItems(_, _, _, _)
StringifyItems(items, keyed, gap, level) ==
    IF items = <<>> THEN <<>>
    ELSE LET last == items[Len(items)]
             front == SubSeq(items, 1, Len(items) - 1) IN
         (IF front = <<>> THEN <<>>
          ELSE StringifyItems(front, keyed, gap, level) \o <<",">> \o Break(gap, level))
         \o (IF keyed
             THEN JsonStringifyString(last[1])
                  \o (IF gap = 0 THEN <<":">> ELSE <<":", " ">>)
                  \o Stringify(last[2], gap, level)
             ELSE Stringify(last, gap, level))

Stringify(v, gap, level) ==
    CASE v.t = "object" ->
            IF v.props = <<>> THEN <<"{", "}">>
            ELSE <<"{">> \o Break(gap, level + 1)
                 \o StringifyItems(v.props, TRUE, gap, level + 1)
                 \o Break(gap, level) \o <<"}">>
      [] v.t = "array" ->
            IF v.items = <<>> THEN <<"[", "]">>
            ELSE <<"[">> \o Break(gap, level + 1)
                 \o StringifyItems(v.items, FALSE, gap, level + 1)
                 \o Break(gap, level) \o <<"]">>
      [] v.t = "string" -> JsonStringifyString(v.s)
      [] v.t = "number" -> NumberToString(v.n)
      [] v.t = "boolean" -> IF v.b THEN <<"true">> ELSE <<"false">>
      [] v.t = "error" -> <<"{", "}">>
      [] v.t = "date" /\ v.valid -> <<"\"">> \o DateIsoText \o <<"\"">>
      [] OTHER -> <<"null">>

\* whether JSON.stringify(v) throws: v reaches an object that refers to itself
RECURSIVE Throws(_)
Throws(v) ==
    CASE v.t = "object" -> v.trait = "cyclic" \/ \E i \in DOMAIN v.props : Throws(v.props[i][2])
      [] v.t = "array" -> \E i \in DOMAIN v.items : Throws(v.items[i])
      [] OTHER -> FALSE

\* typeof v
TypeOf(v) ==
    IF v.t \in {"undefined", "string", "number", "boolean", "function"} THEN v.t ELSE "object"

\* a variant without the limit on the length
InlineArrayAnyLength(arr) ==
    \A i \in DOMAIN arr.items : TypeOf(arr.items[i]) # "object" \/ arr.items[i] = Null

\* the test of formatArray for the single-line form (formatters.js:127-130)
InlineArray(arr) ==
    /\ Len(arr.items) <= 5
    /\ \A i \in DOMAIN arr.items : TypeOf(arr.items[i]) # "object" \/ arr.items[i] = Null

\* formatArray (formatters.js:121-136): the text returned or the TypeError
\* JSON.stringify throws
formatArray(arr) ==
    IF Len(arr.items) = 0 THEN [ok |-> TRUE, v |-> Str(<<"[", "]">>)]
    ELSE IF Throws(arr)
    THEN [ok |-> FALSE, v |-> Err(<<"Converting circular structure to JSON">>)]
    ELSE IF InlineArray(arr) THEN [ok |-> TRUE, v |-> Str(Stringify(arr, 0, 0))]
    ELSE [ok |-> TRUE, v |-> Str(Stringify(arr, 2, 0))]

\* JSON.stringify(obj, null, 2): the text, undefined, or the TypeError thrown
JsonStringify(obj) ==
    CASE obj.t = "object" /\ obj.trait = "cyclic" ->
            [ok |-> FALSE, v |-> Err(<<"Converting circular structure to JSON">>)]
      [] obj.t = "object" /\ obj.trait = "toJSON" -> [ok |-> TRUE, v |-> Undefined]
      [] obj.t = "object" -> [ok |-> TRUE, v |-> Str(Stringify(obj, 2, 0))]
      [] OTHER -> [ok |-> TRUE, v |-> Str(<<"{", "}">>)]

\* obj.constructor?.name || "Object"
ConstructorName(obj) ==
    CASE obj.t = "date" -> <<"Date">>
      [] obj.t = "array" -> <<"Array">>
      [] obj.t = "object" -> obj.ctor
      [] OTHER -> <<"Object">>

DateIso == DateIsoText

\* formatObject, where it returns a string
formatObject(obj) ==
    CASE obj.t = "array" /\ formatArray(obj).ok -> formatArray(obj).v.s
      [] obj.t = "error" -> <<"Error: ">> \o obj.message
      [] obj.t = "date" /\ obj.valid -> DateIso
      [] obj.t \notin {"date", "array"} /\ JsonStringify(obj).ok -> JsonStringify(obj).v.s
      [] OTHER -> <<"[Object ">> \o ConstructorName(obj) \o <<"]">>

formatResult(result) ==
    CASE result.t = "undefined" -> <<"undefined">>
      [] result.t = "null" -> <<"null">>
      [] result.t = "function" -> formatFunction(result)
      [] result.t = "error" -> formatObject(result)
      [] result.t = "string" -> formatString(result.s)
      [] result.t = "number" -> formatNumber(result.n)
      [] result.t = "boolean" -> IF result.b THEN <<"true">> ELSE <<"false">>
      [] OTHER -> formatObject(result)

\* a call of formatResult: the value it returns, or the value it throws
\* when the toString of a function throws (formatters.js:22-24, 61)
FormatCall(result) ==
    IF result.t = "function" /\ ~FnToString(result).ok
    THEN [ok |-> FALSE, v |-> FnToString(result).v]
    ELSE IF result.t = "object" /\ JsonStringify(result) = [ok |-> TRUE, v |-> Undefined]
    THEN [ok |-> TRUE, v |-> Undefined]
    ELSE [ok |-> TRUE, v |-> Str(formatResult(result))]

(***************************************************************************)
(* Error messages (src/config.js ERROR_MESSAGES) and the messages the      *)
(* executors build.                                                        *)
(***************************************************************************)
\* the text a template literal or a string concatenation gives for a value
ToText(v) ==
    CASE v.t = "string" -> v.s
      [] v.t = "null" -> <<"null">>
      [] v.t = "undefined" -> <<"undefined">>
      [] v.t = "number" -> NumberToString(v.n)
      [] OTHER -> <<"[object Object]">>

UNSUPPORTED_LANGUAGE(language) == <<"Unsupported language: ">> \o ToText(language)
REGISTER_NOT_FOUND(register) ==
    <<"Register '">> \o ToText(register) \o <<"' is empty or not found">>
NO_CODE_FOUND == <<"No code found">>
INVALID_CODE == <<"Invalid code: expected non-empty string">>
JS_FAILED == <<"JavaScript execution failed: ">>
PY_FAILED == <<"Python execution failed: ">>
PY_INIT_FAILED == <<"Failed to initialize Python runtime: ">>
NOT_IMPLEMENTED(language) == <<"Execute method not implemented for ">> \o language

\* an object whose message property is an accessor that throws null
MessageThrows == Obj(<<"Object">>, <<>>, "messageThrows")

\* error.message: the value read, the TypeError reading a property of null
\* or undefined throws, or the value the object's own accessor throws
ReadMessage(error) ==
    CASE error.t = "error" -> [ok |-> TRUE, v |-> Str(error.message)]
      [] error.t = "object" /\ error.trait = "messageThrows" -> [ok |-> FALSE, v |-> Null]
      [] error.t \in {"null", "undefined"} ->
            [ok |-> FALSE,
             v |-> Err(<<"Cannot read properties of ", error.t, " (reading 'message')">>)]
      [] OTHER -> [ok |-> TRUE, v |-> Undefined]

(***************************************************************************)
(* Executors.  Instances are named; the engine's constructor creates four  *)
(* (engine.js:24-27), callers may register more.                           *)
(***************************************************************************)
JsInstances == {"js1", "js2"}
PyInstances == {"py1", "py2"}
BaseInstances == {"ruby"}
NoExecutor == "none"

\* Executor.language, set by the constructors
LanguageOf(e) ==
    CASE e \in JsInstances -> <<"JavaScript">>
      [] e \in PyInstances -> <<"Python">>
      [] OTHER -> <<"Ruby">>

getDisplayName(e) == LanguageOf(e)

\* a settled promise, and a thrown value
Fulfilled(v) == [ok |-> TRUE, v |-> v]
Rejected(e) == [ok |-> FALSE, v |-> e]

(* What the host's eval gives for the source texts of the model. *)
SrcAdd == <<"1+1">>
SrcX == <<"x">>
SrcP == <<"p()">>
SrcThrowNull == <<"throw null">>
SrcNewError == <<"new Error('no')">>
SrcEmpty == <<"''">>
SrcBlank == <<"' '">>
SrcThrowGetter == <<"throw {get message(){throw null}}">>
SrcToStringThrows == <<"Object.assign(()=>1,{toString(){throw null}})">>

EvalJS(src) ==
    CASE src = SrcAdd -> Fulfilled(Num(2))
      [] src = SrcX -> Rejected(Err(<<"x is not defined">>))
      [] src = SrcP -> Fulfilled(Thenable)
      [] src = SrcThrowNull -> Rejected(Null)
      [] src = SrcNewError -> Fulfilled(Err(<<"no">>))
      [] src = SrcEmpty -> Fulfilled(Str(<<>>))
      [] src = SrcBlank -> Fulfilled(Str(<<" ">>))
      [] src = SrcThrowGetter -> Rejected(MessageThrows)
      [] src = SrcToStringThrows -> Fulfilled(FnThrowing(Null))
      [] OTHER -> Rejected(Err(<<"Unexpected token">>))

(* What pyodide.runPython gives for them. *)
RunPython(src) ==
    CASE src = SrcAdd -> Fulfilled(Num(2))
      [] src = SrcX -> Rejected(Err(<<"NameError: name 'x' is not defined">>))
      [] src = SrcP -> Fulfilled(PyProxy(Str(<<"a", "\n", "b">>)))
      [] OTHER -> Rejected(Err(<<"SyntaxError: invalid syntax">>))

\* a variant that checks the type only
InvalidCodeTypeOnly(code) == ~IsString(code)

\* the guard both executors open with: !code || typeof code !== "string"
InvalidCode(code) == Falsy(code) \/ ~IsString(code)

\* JavaScriptExecutor.execute's catch block
JsCatch(error) ==
    LET m == ReadMessage(error) IN
    IF m.ok THEN Rejected(Err(JS_FAILED \o ToText(m.v))) ELSE Rejected(m.v)

\* PythonExecutor.execute's catch block (python.js:100-108): error.name is
\* read first, which throws for null and undefined; both branches of the
\* test build the same error
PyCatch(error) ==
    LET m == ReadMessage(error) IN
    IF error.t \in {"null", "undefined"}
    THEN Rejected(Err(<<"Cannot read properties of ", error.t, " (reading 'name')">>))
    ELSE IF m.ok THEN Rejected(Err(PY_FAILED \o ToText(m.v))) ELSE Rejected(m.v)

(***************************************************************************)
(* Engine state helpers (src/execution/engine.js).                         *)
(***************************************************************************)
Calls == 1..MaxCalls

\* names callers pass as language, in several spellings
NameJs == <<"j", "s">>
NameJS == <<"J", "S">>
NamePy == <<"p", "y">>
NamePY == <<"P", "Y">>
NamePython == <<"p", "y", "t", "h", "o", "n">>
NameJavascript == <<"j", "a", "v", "a", "s", "c", "r", "i", "p", "t">>
NameRb == <<"r", "b">>
NameRB == <<"R", "B">>
NameRbMixed == <<"R", "b">>

\* DEFAULTS.EXECUTION_LANGUAGE (src/config.js:30)
EXECUTION_LANGUAGE == NameJavascript

\* Map.prototype.set
MapSet(map, key, value) ==
    [k \in (DOMAIN map) \cup {key} |-> IF k = key THEN value ELSE map[k]]

\* a variant that stores under the name as given
RegistryKeyRaw(language) == language

\* the key registerExecutor stores under: language.toLowerCase()
RegistryKey(language) == ToLowerCase(language)

\* the registerExecutor calls of the constructor (engine.js:24-27)
ConstructorLog ==
    <<[language |-> NameJavascript, executor |-> "js1"],
      [language |-> NameJs, executor |-> "js2"],
      [language |-> NamePython, executor |-> "py1"],
      [language |-> NamePy, executor |-> "py2"]>>

RECURSIVE Registered(_)
Registered(log) ==
    IF log = <<>> THEN <<>>
    ELSE MapSet(Registered(SubSeq(log, 1, Len(log) - 1)),
                RegistryKey(log[Len(log)].language), log[Len(log)].executor)

\* the registry the constructor leaves (engine.js:19-29)
ConstructedExecutors == Registered(ConstructorLog)

\* const executorKey = language?.toLowerCase() || this.defaultLanguage
ExecutorKey(language) ==
    IF IsString(language) /\ ~Falsy(Str(ToLowerCase(language.s)))
    THEN Str(ToLowerCase(language.s))
    ELSE defaultLanguage

\* this.executors.get(executorKey), NoExecutor standing for undefined
ExecutorFor(key) ==
    IF IsString(key) /\ key.s \in DOMAIN executors THEN executors[key.s] ELSE NoExecutor

\* language || other
OrElse(language, other) == IF Falsy(language) THEN other ELSE language

\* execute's catch block (engine.js:97-106): the promise execute returns
EngineCatch(error, language) ==
    LET m == ReadMessage(error) IN
    IF m.ok
    THEN Fulfilled([success |-> FALSE,
                    error |-> m.v,
                    language |-> OrElse(language, defaultLanguage),
                    formattedResult |-> <<"Error: ">> \o ToText(m.v)])
    ELSE Rejected(m.v)

\* execute's success return (engine.js:90-96)
EngineSuccess(rawResult, executor, executorKey) ==
    Fulfilled([success |-> TRUE,
               rawResult |-> rawResult,
               formattedResult |-> formatResult(rawResult),
               language |-> getDisplayName(executor),
               executor |-> executorKey])

\* executeFromRegister's catch block (engine.js:131-138): formattedResult is
\* error.message as it is, the text of a string and undefined when the value
\* caught has no message
RegisterCatch(error, language) ==
    LET m == ReadMessage(error) IN
    IF m.ok
    THEN Fulfilled([success |-> FALSE,
                    error |-> m.v,
                    language |-> OrElse(language, defaultLanguage),
                    formattedResult |-> IF m.v.t = "string" THEN m.v.s ELSE m.v])
    ELSE Rejected(m.v)

\* the error the store throws when the vim state cannot be reached
StoreError == Err(<<"Cannot read properties of undefined (reading 'registerController')">>)

NoCall ==
    [pc |-> "idle", via |-> "none", code |-> Null, language |-> Null, key |-> Null,
     executorKey |-> Null, executor |-> NoExecutor, starter |-> FALSE,
     lookup |-> Fulfilled(Null), awaited |-> 0, settled |-> Fulfilled(Null),
     stored |-> Fulfilled(Null),
     runtime |-> Null, outcome |-> Fulfilled(Null)]

NoPromise == [state |-> "none", v |-> Null, waiters |-> <<>>]

Job(kind, c) == [kind |-> kind, call |-> c]

(***************************************************************************)
(* Initial state: a constructed engine, fresh executors, and an empty      *)
(* results register.                                                       *)
(***************************************************************************)

InitEngine ==
    /\ executors = ConstructedExecutors
    /\ defaultLanguage = Str(ToLowerCase(EXECUTION_LANGUAGE))
    /\ regLog = <<>>
    /\ setDefaultResult = [arg |-> Null, threw |-> FALSE, error |-> Null]
    /\ py = [p \in PyInstances |->
                [pyodide |-> Null, isLoading |-> FALSE, loadPromise |-> NoPromise]]
    /\ loadCount = [p \in PyInstances |-> 0]
    /\ calls = [c \in Calls |-> NoCall]
    /\ microtasks = <<>>
    /\ execOrder = <<>>
    /\ keyBuffer = <<>>
    /\ storeLog = <<>>

Init ==
    /\ InitEngine
    /\ pushTextApi = TRUE
    /\ storeOps = <<>>
    /\ fmtInput = Null
    /\ fmtOutput = Null

(***************************************************************************)
(* The executors' synchronous parts.                                       *)
(***************************************************************************)
\* result && typeof result.then === "function"
IsThenable(v) == v.t = "thenable"

\* JavaScriptExecutor.execute up to its await: the settlement of the promise
\* it returns, or Fulfilled(Thenable) when it suspends on the result
JsExecute(code) ==
    IF InvalidCode(code) THEN Rejected(Err(INVALID_CODE))
    ELSE LET r == EvalJS(code.s) IN
         IF r.ok THEN r ELSE JsCatch(r.v)

\* Executor.execute of the base class: always throws
BaseExecute(e) == Rejected(Err(NOT_IMPLEMENTED(LanguageOf(e))))

\* a variant without the isLoading check
InitBranchNoJoin(p) == IF ~Falsy(py[p].pyodide) THEN "ready" ELSE "start"

\* PythonExecutor.initializePyodide: which of its three branches runs
InitBranch(p) ==
    CASE ~Falsy(py[p].pyodide) -> "ready"
      [] py[p].isLoading -> "join"
      [] OTHER -> "start"

\* a variant that looks at the loading flag only
isReadyNotLoading(p) == ~py[p].isLoading

\* PythonExecutor.isReady
isReady(p) == py[p].pyodide # Null /\ ~py[p].isLoading

\* result && typeof result.toJs === "function" ? result.toJs() : result
ToJs(result) == IF result.t = "pyproxy" THEN result.js ELSE result

\* a variant that appends to the buffer instead of replacing it
PushTextAppend(buffer, text) == Append(buffer, text)

\* registerController.pushText("r", "char", text, false, false): setText
PushText(buffer, text) == <<text>>

\* a variant of the fallback that appends to the buffer
ManualStoreAppend(buffer, text) == Append(buffer, text)

\* the fallback of storeResult: registers["r"].keyBuffer = [resultString]
ManualStore(buffer, text) == <<text>>

\* the write storeResult makes (part_000:28-56)
StoreWrite(buffer, text) ==
    IF pushTextApi THEN PushText(buffer, text) ELSE ManualStore(buffer, text)

(***************************************************************************)
(* execute(code, language): the run from the call to the first await.      *)
(***************************************************************************)
\* the job that follows the settling of execute's promise
AfterExecute(via, c) == IF via = "register" THEN Job("fromreg", c) ELSE Job("caller", c)
ExecutedPc(via) == IF via = "register" THEN "executed" ELSE "finished"

Begin(c, via, key, lookup, code, language) ==
    LET executorKey == ExecutorKey(language)
        executor == ExecutorFor(executorKey)
        base == [NoCall EXCEPT !.via = via, !.key = key, !.lookup = lookup, !.code = code,
                               !.language = language, !.executorKey = executorKey,
                               !.executor = executor]
        Queue(kind, settled) ==
            /\ calls' = [calls EXCEPT ![c] =
                            [base EXCEPT !.pc = "queued", !.settled = settled,
                                         !.awaited = IF kind = "init"
                                                     THEN loadCount[executor] ELSE 0]]
            /\ microtasks' = Append(microtasks, Job(kind, c))
            /\ execOrder' = IF kind = "engine" THEN Append(execOrder, c) ELSE execOrder
    IN
    IF executor = NoExecutor
    THEN /\ calls' = [calls EXCEPT ![c] =
                [base EXCEPT !.pc = ExecutedPc(via),
                             !.outcome = EngineCatch(
                                 Err(UNSUPPORTED_LANGUAGE(
                                         OrElse(language, Str(<<"default">>)))),
                                 language)]]
         /\ microtasks' = Append(microtasks, AfterExecute(via, c))
         /\ UNCHANGED <<py, loadCount, execOrder>>
    ELSE IF executor \in PyInstances
    THEN IF InvalidCode(code)
         THEN Queue("engine", Rejected(Err(INVALID_CODE))) /\ UNCHANGED <<py, loadCount>>
         ELSE LET branch == InitBranch(executor)
                  promise == py[executor].loadPromise IN
              CASE branch = "ready" ->
                      /\ Queue("py", Fulfilled(py[executor].pyodide))
                      /\ UNCHANGED <<py, loadCount>>
                [] branch = "join" /\ promise.state = "pending" ->
                      /\ calls' = [calls EXCEPT ![c] =
                                      [base EXCEPT !.pc = "load",
                                                   !.awaited = loadCount[executor]]]
                      /\ py' = [py EXCEPT ![executor].loadPromise.waiters = Append(@, c)]
                      /\ UNCHANGED <<microtasks, loadCount, execOrder>>
                [] branch = "join" /\ promise.state # "pending" ->
                      /\ Queue("init", [ok |-> promise.state = "fulfilled", v |-> promise.v])
                      /\ UNCHANGED <<py, loadCount>>
                [] OTHER ->
                      /\ calls' = [calls EXCEPT ![c] =
                                      [base EXCEPT !.pc = "load", !.starter = TRUE,
                                                   !.awaited = loadCount[executor] + 1]]
                      /\ py' = [py EXCEPT ![executor].isLoading = TRUE,
                                          ![executor].loadPromise =
                                              [state |-> "pending", v |-> Null,
                                               waiters |-> <<c>>]]
                      /\ loadCount' = [loadCount EXCEPT ![executor] = @ + 1]
                      /\ UNCHANGED <<microtasks, execOrder>>
    ELSE LET r == IF executor \in JsInstances THEN JsExecute(code)
                  ELSE BaseExecute(executor) IN
         /\ IF r.ok /\ IsThenable(r.v)
            THEN /\ calls' = [calls EXCEPT ![c] = [base EXCEPT !.pc = "thenable"]]
                 /\ UNCHANGED <<microtasks, execOrder>>
            ELSE Queue("engine", r)
         /\ UNCHANGED <<py, loadCount>>


\* calls are numbered in the order they are made
NextCall(c) == calls[c].pc = "idle" /\ \A d \in Calls : d < c => calls[d].pc # "idle"

Execute(c, code, language) ==
    /\ NextCall(c)
    /\ Begin(c, "execute", Null, Fulfilled(Null), code, language)
    /\ UNCHANGED <<executors, defaultLanguage, regLog, setDefaultResult, keyBuffer, storeLog>>
    /\ UNCHANGED toolVars

(***************************************************************************)
(* executeFromRegister(registerName, getCodeFromRegister, language): the   *)
(* lookup either returns a text or throws: an Error, a value without a     *)
(* message, null or undefined, or an object whose message accessor throws. *)
(* One of the texts is a program that makes execute itself reject.         *)
(***************************************************************************)
Keys == {Null, Str(<<>>), Str(<<"a">>)}
LookupThrown == Err(<<"editor is gone">>)
BlankLookups == {Fulfilled(Str(<<>>)), Fulfilled(Str(<<" ", "\t">>))}
Lookups == BlankLookups \cup
           {Fulfilled(Str(<<" ", "1+1", "\n">>)), Fulfilled(Str(<<"x">>)),
            Fulfilled(Str(SrcThrowGetter)),
            Rejected(LookupThrown), Rejected(Num(1)), Rejected(Null),
            Rejected(Undefined), Rejected(MessageThrows)}

\* a variant without the trim
BlankCodeNoTrim(code) == Falsy(code)

\* !code || !code.trim()
BlankCode(code) == Falsy(code) \/ Falsy(Str(Trim(code.s)))

\* the error executeFromRegister throws for a blank lookup (engine.js:124-128)
LookupError(registerName) ==
    IF ~Falsy(registerName) THEN Err(REGISTER_NOT_FOUND(registerName))
    ELSE Err(NO_CODE_FOUND)

ExecuteFromRegister(c, registerName, lookup, language) ==
    /\ NextCall(c)
    /\ IF ~lookup.ok \/ BlankCode(lookup.v)
       THEN /\ calls' = [calls EXCEPT ![c] =
                   [NoCall EXCEPT !.via = "register", !.key = registerName,
                                  !.language = language, !.lookup = lookup,
                                  !.pc = "finished",
                                  !.outcome = RegisterCatch(
                                      IF lookup.ok THEN LookupError(registerName)
                                      ELSE lookup.v,
                                      language)]]
            /\ microtasks' = Append(microtasks, Job("caller", c))
            /\ UNCHANGED <<py, loadCount, execOrder>>
       ELSE Begin(c, "register", registerName, lookup, Str(Trim(lookup.v.s)), language)
    /\ UNCHANGED <<executors, defaultLanguage, regLog, setDefaultResult, keyBuffer, storeLog>>
    /\ UNCHANGED toolVars

(***************************************************************************)
(* The environment settles what the executors wait for.                    *)
(***************************************************************************)
ThenableOutcomes == {Fulfilled(Str(<<"ok">>)), Rejected(Err(<<"boom">>))}

\* the promise an evaluated program returned settles; the continuation of
\* JavaScriptExecutor.execute's await is queued
ThenableSettle(c, settled) ==
    /\ calls[c].pc = "thenable"
    /\ calls' = [calls EXCEPT ![c].pc = "queued", ![c].settled = settled]
    /\ microtasks' = Append(microtasks, Job("js", c))
    /\ UNCHANGED <<executors, defaultLanguage, regLog, setDefaultResult, py, loadCount,
                   keyBuffer, storeLog, execOrder>>
    /\ UNCHANGED toolVars

LoaderMessage == <<"network error">>

\* _loadPyodide (python.js:50-74): the promise it returns, once the import,
\* the load and the package load have all succeeded, or one of them failed
LoadOutcome(p, ok) ==
    IF ok THEN Fulfilled(Runtime(p, loadCount[p]))
    ELSE Rejected(Err(PY_INIT_FAILED \o LoaderMessage))

RECURSIVE Jobs(_, _)
Jobs(kind, cs) == IF cs = <<>> THEN <<>> ELSE <<Job(kind, Head(cs))>> \o Jobs(kind, Tail(cs))

\* a variant in which a call that joined the load reads the executor's
\* pyodide field instead of the promise
AwaitedFromField(c, settled) ==
    IF calls[c].starter THEN settled ELSE Fulfilled(py[calls[c].executor].pyodide)

\* what `await this.loadPromise` gives call c once the promise has settled
\* (python.js:32, 39)
Awaited(c, settled) == settled

\* loadPromise settles: the continuations of all awaits on it are queued,
\* in the order the awaits were made
LoadSettle(p, ok) ==
    LET promise == py[p].loadPromise
        settled == LoadOutcome(p, ok) IN
    /\ promise.state = "pending"
    /\ py' = [py EXCEPT ![p].loadPromise =
                 [state |-> IF ok THEN "fulfilled" ELSE "rejected",
                  v |-> settled.v, waiters |-> <<>>]]
    /\ calls' = [c \in Calls |->
                    IF \E i \in DOMAIN promise.waiters : promise.waiters[i] = c
                    THEN [calls[c] EXCEPT !.pc = "queued", !.settled = Awaited(c, settled)]
                    ELSE calls[c]]
    /\ microtasks' = microtasks \o Jobs("init", promise.waiters)
    /\ UNCHANGED <<executors, defaultLanguage, regLog, setDefaultResult, loadCount,
                   keyBuffer, storeLog, execOrder>>
    /\ UNCHANGED toolVars

(***************************************************************************)
(* Microtasks: the head job of the queue runs to its next await.           *)
(***************************************************************************)
\* a variant in which no job runs while some call is suspended
HeadIsExclusive(kind, c) ==
    /\ microtasks # <<>> /\ Head(microtasks) = Job(kind, c)
    /\ \A d \in Calls : calls[d].pc \notin {"thenable", "load"}

\* the job the event loop runs next
HeadIs(kind, c) == microtasks # <<>> /\ Head(microtasks) = Job(kind, c)

\* JavaScriptExecutor.execute after `await result` (javascript.js:37-44)
JsResume(c) ==
    /\ HeadIs("js", c)
    /\ calls' = [calls EXCEPT ![c].settled =
                    IF calls[c].settled.ok THEN calls[c].settled
                    ELSE JsCatch(calls[c].settled.v)]
    /\ microtasks' = Append(Tail(microtasks), Job("engine", c))
    /\ execOrder' = Append(execOrder, c)
    /\ UNCHANGED <<executors, defaultLanguage, regLog, setDefaultResult, py, loadCount,
                   keyBuffer, storeLog>>
    /\ UNCHANGED toolVars

\* a variant that clears isLoading only when the load succeeded
InitFinallyOnSuccess(fields, settled) ==
    IF settled.ok THEN [fields EXCEPT !.pyodide = settled.v, !.isLoading = FALSE]
    ELSE fields

\* the try/finally of initializePyodide in the call that started the load
\* (python.js:38-43): the executor's fields once the load has settled
InitFinally(fields, settled) ==
    [fields EXCEPT !.pyodide = IF settled.ok THEN settled.v ELSE @,
                   !.isLoading = FALSE]

\* initializePyodide after its await on loadPromise (python.js:32, 39-43)
InitResume(c) ==
    LET p == calls[c].executor IN
    /\ HeadIs("init", c)
    /\ IF calls[c].starter
       THEN py' = [py EXCEPT ![p] = InitFinally(@, calls[c].settled)]
       ELSE py' = py
    /\ microtasks' = Append(Tail(microtasks), Job("py", c))
    /\ UNCHANGED <<executors, defaultLanguage, regLog, setDefaultResult, loadCount,
                   calls, keyBuffer, storeLog, execOrder>>
    /\ UNCHANGED toolVars

\* PythonExecutor.execute after `await this.initializePyodide()` (python.js:89-108)
PyRun(settled, code) ==
    IF ~settled.ok THEN PyCatch(settled.v)
    ELSE LET r == RunPython(code.s) IN
         IF r.ok THEN Fulfilled(ToJs(r.v)) ELSE PyCatch(r.v)

PyResume(c) ==
    /\ HeadIs("py", c)
    /\ calls' = [calls EXCEPT ![c].settled = PyRun(calls[c].settled, calls[c].code),
                              ![c].runtime = IF calls[c].settled.ok
                                             THEN calls[c].settled.v ELSE @]
    /\ microtasks' = Append(Tail(microtasks), Job("engine", c))
    /\ execOrder' = Append(execOrder, c)
    /\ UNCHANGED <<executors, defaultLanguage, regLog, setDefaultResult, py, loadCount,
                   keyBuffer, storeLog>>
    /\ UNCHANGED toolVars

\* a variant that also stores the error text of a failed execution
StoredTextAlways(settled, storeOk) ==
    IF settled.ok /\ storeOk THEN <<formatResult(settled.v)>>
    ELSE IF ~settled.ok /\ storeOk /\ ReadMessage(settled.v).ok
         THEN <<<<"Error: ">> \o ToText(ReadMessage(settled.v).v)>>
         ELSE <<>>

\* a variant that stores the unformatted text of the result
StoredTextRaw(settled, storeOk) ==
    IF settled.ok /\ storeOk THEN <<ToText(settled.v)>> ELSE <<>>

\* the texts execute hands to storeResult, and storeResult writes, once the
\* executor's promise has settled (engine.js:81-87, 97); storeOk is whether
\* the vim register controller can be reached
StoredText(settled, storeOk) ==
    IF settled.ok /\ storeOk THEN <<formatResult(settled.v)>> ELSE <<>>

\* where execute's try block stands once formatResult was called on the
\* executor's value (engine.js:81-84): formatResult runs inside the try, so
\* what it throws is caught like a rejection of the executor
AfterFormat(settled) ==
    IF settled.ok /\ ~FormatCall(settled.v).ok
    THEN Rejected(FormatCall(settled.v).v)
    ELSE settled

\* a variant whose return depends on the executor alone
EngineReturnIgnoringStore(call, storeOk) ==
    IF call.settled.ok
    THEN EngineSuccess(call.settled.v, call.executor, call.executorKey)
    ELSE EngineCatch(call.settled.v, call.language)

\* what execute returns once the executor's promise has settled: the success
\* Outcome when storeResult returned too, and else the catch block's Outcome
\* for whichever error was thrown (engine.js:84-106)
EngineReturn(call, storeOk) ==
    IF call.settled.ok /\ storeOk
    THEN EngineSuccess(call.settled.v, call.executor, call.executorKey)
    ELSE EngineCatch(IF call.settled.ok THEN StoreError ELSE call.settled.v,
                     call.language)

\* execute after `await executor.execute(code)`, up to its next await or its
\* return (engine.js:81-87, 97-106).  When the executor's promise fulfilled,
\* storeResult is called: it writes or throws at once, and being an async
\* function it hands back a promise, which execute awaits (engine.js:87,
\* part_000:20).  When the executor's promise rejected, the catch block
\* returns in this same job.
EngineResume(c, storeOk) ==
    LET call == [calls[c] EXCEPT !.settled = AfterFormat(@)]
        written == StoredText(call.settled, storeOk) IN
    /\ HeadIs("engine", c)
    /\ keyBuffer' = IF written = <<>> THEN keyBuffer
                    ELSE StoreWrite(keyBuffer, written[Len(written)])
    /\ storeLog' = storeLog \o [i \in DOMAIN written |-> [call |-> c, text |-> written[i]]]
    /\ IF call.settled.ok
       THEN /\ microtasks' = Append(Tail(microtasks), Job("store", c))
            /\ calls' = [calls EXCEPT ![c].pc = "storing",
                            ![c].stored = IF storeOk THEN Fulfilled(Undefined)
                                          ELSE Rejected(StoreError)]
       ELSE /\ microtasks' = Append(Tail(microtasks), AfterExecute(call.via, c))
            /\ calls' = [calls EXCEPT ![c].pc = ExecutedPc(call.via),
                            ![c].outcome = EngineReturn(call, storeOk)]
    /\ UNCHANGED <<executors, defaultLanguage, regLog, setDefaultResult, py, loadCount,
                   execOrder>>
    /\ UNCHANGED toolVars

\* execute after `await storeResult(formattedResult)` (engine.js:87-106): the
\* success return, or the catch block for the error storeResult threw
StoreResume(c) ==
    LET call == calls[c] IN
    /\ HeadIs("store", c)
    /\ microtasks' = Append(Tail(microtasks), AfterExecute(call.via, c))
    /\ calls' = [calls EXCEPT ![c].pc = ExecutedPc(call.via),
                    ![c].outcome = EngineReturn(call, call.stored.ok)]
    /\ UNCHANGED <<executors, defaultLanguage, regLog, setDefaultResult, py, loadCount,
                   keyBuffer, storeLog, execOrder>>
    /\ UNCHANGED toolVars

\* executeFromRegister after `await this.execute(...)` (engine.js:130-138)
FromRegResume(c) ==
    /\ HeadIs("fromreg", c)
    /\ calls' = [calls EXCEPT ![c].pc = "finished",
                    ![c].outcome = IF @.ok THEN @
                                   ELSE RegisterCatch(@.v, calls[c].language)]
    /\ microtasks' = Append(Tail(microtasks), Job("caller", c))
    /\ UNCHANGED <<executors, defaultLanguage, regLog, setDefaultResult, py, loadCount,
                   keyBuffer, storeLog, execOrder>>
    /\ UNCHANGED toolVars

\* the caller's await on the promise returned to it resumes
CallerResume(c) ==
    /\ HeadIs("caller", c)
    /\ calls' = [calls EXCEPT ![c].pc = "returned"]
    /\ microtasks' = Tail(microtasks)
    /\ UNCHANGED <<executors, defaultLanguage, regLog, setDefaultResult, py, loadCount,
                   keyBuffer, storeLog, execOrder>>
    /\ UNCHANGED toolVars

(***************************************************************************)
(* The registry.                                                           *)
(***************************************************************************)
RegNames == {NameRb, NameRB, NameJS}
RegInstances == {"ruby", "js1"}

registerExecutor(language, executor) ==
    /\ Len(regLog) < MaxRegs
    /\ executors' = MapSet(executors, RegistryKey(language), executor)
    /\ regLog' = Append(regLog, [language |-> language, executor |-> executor])
    /\ UNCHANGED <<defaultLanguage, setDefaultResult, py, loadCount, calls, microtasks,
                   keyBuffer, storeLog, execOrder>>
    /\ UNCHANGED toolVars

DefaultNames == {NameJS, NameRbMixed}

\* a variant that assigns the name as given
DefaultKeyRaw(language) == language

\* the value setDefaultLanguage assigns
DefaultKey(language) == ToLowerCase(language)

\* a variant that accepts every name
HasExecutorAlways(language) == TRUE

\* this.executors.has(language.toLowerCase())
HasExecutor(language) == ToLowerCase(language) \in DOMAIN executors

setDefaultLanguage(language) ==
    /\ IF HasExecutor(language)
       THEN /\ defaultLanguage' = Str(DefaultKey(language))
            /\ setDefaultResult' = [arg |-> Str(language), threw |-> FALSE, error |-> Null]
       ELSE /\ defaultLanguage' = defaultLanguage
            /\ setDefaultResult' = [arg |-> Str(language), threw |-> TRUE,
                                    error |-> Err(UNSUPPORTED_LANGUAGE(Str(language)))]
    /\ UNCHANGED <<executors, regLog, py, loadCount, calls, microtasks, keyBuffer, storeLog, execOrder>>
    /\ UNCHANGED toolVars

(***************************************************************************)
(* Specifications.  All share Init and the actions; each draws the inputs  *)
(* that its claims are about.                                              *)
(***************************************************************************)
Resume ==
    \/ \E c \in Calls, settled \in ThenableOutcomes : ThenableSettle(c, settled)
    \/ \E p \in PyInstances, ok \in BOOLEAN : LoadSettle(p, ok)
    \/ \E c \in Calls : JsResume(c)
    \/ \E c \in Calls : InitResume(c)
    \/ \E c \in Calls : PyResume(c)
    \/ \E c \in Calls, storeOk \in BOOLEAN : EngineResume(c, storeOk)
    \/ \E c \in Calls : StoreResume(c)
    \/ \E c \in Calls : CallerResume(c)

\* concurrent execute calls on the constructed engine
\* <<code, language>> arguments: each executor with a value, a throw, a
\* suspension and an invalid source, and an unregistered language
EngineArguments ==
    {<<Str(SrcAdd), Null>>, <<Str(SrcX), Null>>, <<Str(SrcP), Null>>,
     <<Str(SrcThrowNull), Null>>, <<Str(SrcNewError), Null>>, <<Str(<<>>), Null>>,
     <<Str(SrcAdd), Str(NamePY)>>, <<Str(SrcP), Str(NamePY)>>,
     <<Str(SrcAdd), Str(NamePython)>>,
     <<Str(SrcAdd), Str(NameRb)>>}

Next ==
    \/ \E c \in Calls, arguments \in EngineArguments :
          Execute(c, arguments[1], arguments[2])
    \/ Resume

Spec == Init /\ [][Next]_vars

\* execute calls whose thrown value or result throws when the engine reads
\* it: a thrown object whose message accessor throws, a returned function
\* whose toString throws, next to a value, a plain throw and an
\* unregistered language
ThrowingArguments ==
    {<<Str(SrcAdd), Null>>, <<Str(SrcX), Null>>, <<Str(SrcThrowNull), Null>>,
     <<Str(SrcThrowGetter), Null>>, <<Str(SrcToStringThrows), Null>>,
     <<Str(SrcAdd), Str(NameRb)>>}

NextThrowing ==
    \/ \E c \in Calls, arguments \in ThrowingArguments :
          Execute(c, arguments[1], arguments[2])
    \/ \E c \in Calls, storeOk \in BOOLEAN : EngineResume(c, storeOk)
    \/ \E c \in Calls : StoreResume(c)
    \/ \E c \in Calls : CallerResume(c)

SpecThrowing == Init /\ [][NextThrowing]_vars

\* registrations, default changes and execute calls
RegistryLanguages == {Null, Str(NameRb), Str(NameRB), Str(NameJS)}
RegistryCodes == {Str(SrcAdd)}

\* each operation is issued once the previous execute call has returned
NextRegistry ==
    \/ /\ microtasks = <<>>
       /\ \E language \in RegNames, executor \in RegInstances :
             registerExecutor(language, executor)
    \/ /\ microtasks = <<>>
       /\ \E language \in DefaultNames : setDefaultLanguage(language)
    \/ /\ microtasks = <<>>
       /\ \E c \in Calls, code \in RegistryCodes, language \in RegistryLanguages :
             Execute(c, code, language)
    \/ \E c \in Calls : EngineResume(c, TRUE)
    \/ \E c \in Calls : StoreResume(c)
    \/ \E c \in Calls : CallerResume(c)

SpecRegistry == Init /\ [][NextRegistry]_vars

\* executeFromRegister calls
FromRegisterLanguages == {Null, Str(NameRb)}

\* <<registerName, lookup, language>> arguments: every key with the blank
\* texts, every lookup under a named register, and an unregistered language
\* override with a text, a thrown Error and a thrown null
FromRegisterArguments ==
    {<<key, lookup, Null>> : key \in Keys, lookup \in BlankLookups}
    \cup {<<Str(<<"a">>), lookup, Null>> : lookup \in Lookups}
    \cup {<<Null, lookup, language>> :
              lookup \in {Fulfilled(Str(<<" ", "1+1", "\n">>)), Rejected(LookupThrown),
                          Rejected(Null)},
              language \in FromRegisterLanguages \ {Null}}

NextFromRegister ==
    \/ \E c \in Calls, arguments \in FromRegisterArguments :
          ExecuteFromRegister(c, arguments[1], arguments[2], arguments[3])
    \/ \E c \in Calls, storeOk \in BOOLEAN : EngineResume(c, storeOk)
    \/ \E c \in Calls : StoreResume(c)
    \/ \E c \in Calls : FromRegResume(c)
    \/ \E c \in Calls : CallerResume(c)

SpecFromRegister == Init /\ [][NextFromRegister]_vars

(***************************************************************************)
(* Vocabulary of the properties.                                           *)
(***************************************************************************)
\* the promise returned for call c has settled
Finished(c) == calls[c].pc \in {"finished", "returned"}
\* ... with an Outcome whose success flag is set
Succeeded(c) == Finished(c) /\ calls[c].outcome.ok /\ calls[c].outcome.v.success
\* ... with a failed Outcome, or with a rejection
Failed(c) == Finished(c) /\ ~Succeeded(c)
\* the storeResult writes call c made
WritesOf(c) == {i \in DOMAIN storeLog : storeLog[i].call = c}
\* the content of the results slot after the logged writes
LoggedSlot == IF storeLog = <<>> THEN <<>> ELSE <<storeLog[Len(storeLog)].text>>

(***************************************************************************)
(* C1: a failing execute call never writes the results slot: no write is   *)
(* made by a call that ends failed, whatever made it fail; every write is  *)
(* the formatted result of a fulfilled executor promise; and the slot      *)
(* holds what the last such write left there.                              *)
(***************************************************************************)
C1_FailedExecuteNeverWrites ==
    /\ \A c \in Calls : Failed(c) => WritesOf(c) = {}
    /\ \A i \in DOMAIN storeLog :
          /\ calls[storeLog[i].call].settled.ok
          /\ storeLog[i].text = formatResult(calls[storeLog[i].call].settled.v)
    /\ keyBuffer = LoggedSlot

\* an executor error was turned into a failed Outcome while the slot
\* still holds the value an earlier execution stored
C1_Witness ==
    \E c, d \in Calls :
        /\ Succeeded(d) /\ calls[d].pc = "returned"
        /\ Failed(c)
        /\ calls[c].executor # NoExecutor
        /\ ~calls[c].settled.ok
        /\ execOrder = <<d, c>>
        /\ keyBuffer = <<calls[d].outcome.v.formattedResult>>

(***************************************************************************)
(* C2: under every interleaving of execute calls the results slot holds    *)
(* the formatted string of the successful execution whose executor         *)
(* completed most recently, and it is unchanged (empty) until the first    *)
(* success.  An execution is successful from its store write on: its       *)
(* executor returned normally and storeResult wrote, and the job that      *)
(* follows returns the successful Outcome with the text written.           *)
(***************************************************************************)
\* call c has made its store write and awaits the promise of storeResult
Stored(c) == calls[c].pc = "storing" /\ calls[c].stored.ok

C2_SlotHoldsLatestSuccess ==
    LET done == {i \in DOMAIN execOrder :
                    Succeeded(execOrder[i]) \/ Stored(execOrder[i])} IN
    /\ \A c \in Calls :
          Succeeded(c) /\ calls[c].executor # NoExecutor =>
              calls[c].outcome.v.formattedResult = formatResult(calls[c].settled.v)
    /\ IF done = {} THEN keyBuffer = <<>>
       ELSE LET last == CHOOSE i \in done : \A j \in done : j <= i IN
            keyBuffer = <<formatResult(calls[execOrder[last]].settled.v)>>

\* two successful executions overlapped and completed in the order opposite
\* to the order of the calls
C2_Witness ==
    /\ MaxCalls >= 2
    /\ execOrder = <<2, 1>>
    /\ Succeeded(1) /\ Succeeded(2)
    /\ calls[1].outcome.v.formattedResult # calls[2].outcome.v.formattedResult

(***************************************************************************)
(* C3: a PythonExecutor starts a runtime load only when it has no runtime  *)
(* and no load in flight; calls made while a load is pending join it, and  *)
(* once a runtime is present it is the product of the last load started.   *)
(***************************************************************************)
C3_LoadOnlyWhenUninitialized ==
    [][\A p \in PyInstances :
          /\ loadCount'[p] # loadCount[p] =>
                /\ py[p].pyodide = Null
                /\ ~py[p].isLoading
                /\ py[p].loadPromise.state # "pending"
                /\ loadCount'[p] = loadCount[p] + 1
          /\ py'[p].pyodide # Null => py'[p].pyodide = Runtime(p, loadCount'[p])
          /\ py'[p].loadPromise.state = "pending" => py'[p].isLoading
      ]_vars

\* two calls wait for the one load of an executor
C3_Witness ==
    \E p \in PyInstances :
        /\ loadCount[p] = 1
        /\ py[p].loadPromise.state = "pending"
        /\ Len(py[p].loadPromise.waiters) = 2

(***************************************************************************)
(* C4: the names "py" and "python" resolve to one executor instance, so    *)
(* that executions through both names never initialize two runtimes.       *)
(***************************************************************************)
PythonKeys == {Str(NamePy), Str(NamePython)}

C4_AliasSharesInstance ==
    /\ \A c, d \in Calls :
          (calls[c].executorKey \in PythonKeys /\ calls[d].executorKey \in PythonKeys)
              => calls[c].executor = calls[d].executor
    /\ Cardinality({p \in PyInstances : loadCount[p] > 0}) <= 1

(***************************************************************************)
(* C5: when a runtime load fails, every call that awaited it ends with a   *)
(* failed Outcome carrying the loader's message; once such a call has      *)
(* ended, and until a new load is started, the executor is Uninitialized   *)
(* (no runtime, not loading, isReady() false); and the next execute call   *)
(* then starts a new load.                                                 *)
(***************************************************************************)
\* call c went through initializePyodide and did not get a runtime
InitFailed(c) ==
    /\ Finished(c)
    /\ calls[c].executor \in PyInstances
    /\ ~InvalidCode(calls[c].code)
    /\ calls[c].runtime = Null

C5_LoadFailureResets ==
    [][/\ \A c \in Calls :
             InitFailed(c)' =>
                LET call == calls'[c] IN
                /\ call.outcome.ok
                /\ ~call.outcome.v.success
                /\ call.outcome.v.error = Str(PY_FAILED \o PY_INIT_FAILED \o LoaderMessage)
                /\ \A d \in Calls :
                      (Finished(d)' /\ calls'[d].executor = call.executor
                          /\ calls'[d].awaited = call.awaited) => InitFailed(d)'
                /\ \A p \in PyInstances :
                      (call.executor = p /\ call.awaited = loadCount'[p]) =>
                          /\ py'[p].pyodide = Null
                          /\ ~py'[p].isLoading
                          /\ ~isReady(p)'
       /\ \A d \in Calls :
             (/\ calls[d].pc = "idle" /\ calls'[d].pc # "idle"
              /\ calls'[d].executor \in PyInstances
              /\ ~InvalidCode(calls'[d].code)
              /\ \E c \in Calls : /\ InitFailed(c)
                                  /\ calls[c].executor = calls'[d].executor
                                  /\ calls[c].awaited = loadCount[calls[c].executor])
             => /\ loadCount'[calls'[d].executor] = loadCount[calls'[d].executor] + 1
                /\ calls'[d].starter
                /\ py'[calls'[d].executor].loadPromise.state = "pending"
      ]_vars

\* a call failed with the first load of its executor, and a later call
\* started a second load
C5_Witness ==
    \E c, d \in Calls :
        /\ InitFailed(c) /\ calls[c].awaited = 1
        /\ calls[d].executor = calls[c].executor
        /\ calls[d].starter /\ calls[d].awaited = 2

(***************************************************************************)
(* C6: execute never rejects: every call ends with an Outcome; when the    *)
(* case-folded language override (or the default, without an override) has *)
(* no registered executor, the Outcome is failed with the                  *)
(* UnsupportedLanguage message and no executor was invoked.                *)
(***************************************************************************)
EqualsIgnoreCase(a, b) ==
    /\ Len(a) = Len(b)
    /\ \A i \in DOMAIN a : ToLowerChar(a[i]) = ToLowerChar(b[i])

\* no executor is registered for the language argument of a call
Unregistered(language) ==
    IF IsString(language) /\ language.s # <<>>
    THEN ~\E k \in DOMAIN executors : EqualsIgnoreCase(k, language.s)
    ELSE ~(IsString(defaultLanguage) /\ defaultLanguage.s \in DOMAIN executors)

C6_ExecuteNeverThrows ==
    \A c \in Calls :
        (Finished(c) /\ calls[c].via = "execute") =>
            /\ calls[c].outcome.ok
            /\ {"success", "formattedResult"} \subseteq DOMAIN calls[c].outcome.v
            /\ Unregistered(calls[c].language) <=> calls[c].executor = NoExecutor
            /\ Unregistered(calls[c].language) =>
                  /\ ~calls[c].outcome.v.success
                  /\ calls[c].outcome.v.error =
                        Str(<<"Unsupported language: ">> \o calls[c].language.s)
                  /\ \A i \in DOMAIN execOrder : execOrder[i] # c
                  /\ WritesOf(c) = {}

(***************************************************************************)
(* C7: registerExecutor stores under the case-folded name and execute      *)
(* resolves its language override case-insensitively: an execute call      *)
(* with override L invokes the executor most recently registered (by the   *)
(* constructor or later) under a case variant of L, and none if there is   *)
(* no such registration.                                                   *)
(***************************************************************************)
IsLowerCase(s) == \A i \in DOMAIN s : ToLowerChar(s[i]) = s[i]

LastRegistered(log, name) ==
    LET hits == {i \in DOMAIN log : EqualsIgnoreCase(log[i].language, name)} IN
    IF hits = {} THEN NoExecutor
    ELSE log[CHOOSE i \in hits : \A j \in hits : j <= i].executor

C7_LastRegistrationWins ==
    [][/\ \A c \in Calls :
             (/\ calls[c].pc = "idle" /\ calls'[c].pc # "idle"
              /\ IsString(calls'[c].language) /\ calls'[c].language.s # <<>>)
             => calls'[c].executor =
                    LastRegistered(ConstructorLog \o regLog, calls'[c].language.s)
       /\ executors' # executors =>
             \A k \in DOMAIN executors' :
                 /\ IsLowerCase(k)
                 /\ executors'[k] = LastRegistered(ConstructorLog \o regLog', k)
      ]_vars

\* an executor registered as "JS" replaced the constructor's "js" executor
\* and was invoked by execute(code, "JS")
C7_Witness ==
    \E c \in Calls :
        /\ regLog # <<>>
        /\ regLog[1] = [language |-> NameJS, executor |-> "ruby"]
        /\ calls[c].language = Str(NameJS)
        /\ calls[c].executor = "ruby"
        /\ Finished(c)

(***************************************************************************)
(* C8: setDefaultLanguage(name) throws UnsupportedLanguage{name} when no   *)
(* executor is registered under a case variant of name, and then leaves    *)
(* the default and the registry as they were; otherwise the default        *)
(* becomes the lower-case form of name.                                    *)
(***************************************************************************)
C8_SetDefaultLanguage ==
    [][(setDefaultResult' # setDefaultResult \/ defaultLanguage' # defaultLanguage) =>
          LET name == setDefaultResult'.arg.s
              log == ConstructorLog \o regLog IN
          /\ executors' = executors
          /\ IF \E i \in DOMAIN log : EqualsIgnoreCase(log[i].language, name)
             THEN /\ ~setDefaultResult'.threw
                  /\ IsString(defaultLanguage')
                  /\ IsLowerCase(defaultLanguage'.s)
                  /\ EqualsIgnoreCase(defaultLanguage'.s, name)
             ELSE /\ setDefaultResult'.threw
                  /\ setDefaultResult'.error = Err(<<"Unsupported language: ">> \o name)
                  /\ defaultLanguage' = defaultLanguage
      ]_vars

\* setDefaultLanguage("Rb") threw while nothing is registered as "rb", and
\* the default is still the constructor's
C8_Witness ==
    /\ setDefaultResult.threw
    /\ setDefaultResult.arg = Str(NameRbMixed)
    /\ defaultLanguage = Str(NameJavascript)
    /\ ~\E k \in DOMAIN executors : EqualsIgnoreCase(k, NameRbMixed)

(***************************************************************************)
(* C9 as stated: whenever the executor completes successfully, execute     *)
(* returns a successful Outcome (rawResult the executor's value,           *)
(* formattedResult its formatResult, no error field) and has written that  *)
(* formattedResult to the results slot; error is present only on failed    *)
(* Outcomes.                                                               *)
(***************************************************************************)
\* the promise of the executor invoked for call c was fulfilled
ExecutorOk(c) == Finished(c) /\ calls[c].executor # NoExecutor /\ calls[c].settled.ok

SuccessfulOutcome(c) ==
    LET o == calls[c].outcome.v IN
    /\ Succeeded(c)
    /\ o.rawResult = calls[c].settled.v
    /\ o.formattedResult = formatResult(o.rawResult)
    /\ "error" \notin DOMAIN o
    /\ Cardinality(WritesOf(c)) = 1
    /\ \A i \in WritesOf(c) : storeLog[i].text = o.formattedResult

ErrorOnlyOnFailure ==
    \A c \in Calls :
        (Finished(c) /\ calls[c].outcome.ok) =>
            ("error" \in DOMAIN calls[c].outcome.v <=> ~calls[c].outcome.v.success)

C9_Original ==
    /\ \A c \in Calls : ExecutorOk(c) => SuccessfulOutcome(c)
    /\ ErrorOnlyOnFailure

(***************************************************************************)
(* C9 amended: whenever the executor completes successfully, either        *)
(* storeResult wrote the formatted result and execute returns the          *)
(* successful Outcome described above, or storeResult threw, nothing was   *)
(* written and execute returns a failed Outcome carrying the store's       *)
(* error; error is present only on failed Outcomes.                        *)
(***************************************************************************)
C9_SuccessOutcome ==
    /\ \A c \in Calls :
          ExecutorOk(c) =>
              \/ SuccessfulOutcome(c)
              \/ /\ Failed(c) /\ calls[c].outcome.ok
                 /\ calls[c].outcome.v.error = Str(StoreError.message)
                 /\ "rawResult" \notin DOMAIN calls[c].outcome.v
                 /\ WritesOf(c) = {}
    /\ \A c \in Calls : Succeeded(c) => SuccessfulOutcome(c) /\ ExecutorOk(c)
    /\ ErrorOnlyOnFailure

\* a Python execution returned a string that the formatter quotes, and the
\* quoted form is what the slot holds
C9_Witness ==
    \E c \in Calls :
        /\ Succeeded(c)
        /\ calls[c].outcome.v.rawResult = Str(<<"a", "\n", "b">>)
        /\ keyBuffer = <<<<"\"", "a", "\\", "n", "b", "\"">>>>

(***************************************************************************)
(* C10 as stated: executeFromRegister never throws; when the lookup throws *)
(* or yields empty or whitespace-only text it returns a failed Outcome,    *)
(* invokes no executor and writes nothing, and the error is                *)
(* RegisterNotFound{key} when a key was supplied, NoCodeFound when the key *)
(* is null.                                                                *)
(***************************************************************************)
LookupFailed(c) ==
    /\ calls[c].via = "register"
    /\ \/ ~calls[c].lookup.ok
       \/ \A i \in DOMAIN calls[c].lookup.v.s : IsSpace(calls[c].lookup.v.s[i])

KeyError(key) ==
    IF key = Null \/ key = Str(<<>>) THEN Str(<<"No code found">>)
    ELSE Str(<<"Register '">> \o key.s \o <<"' is empty or not found">>)

\* call c invoked no executor and wrote nothing to the Value Store
WithoutExecutor(c) ==
    /\ calls[c].executor = NoExecutor
    /\ \A i \in DOMAIN execOrder : execOrder[i] # c
    /\ WritesOf(c) = {}

FailedWithoutExecutor(c) ==
    /\ calls[c].outcome.ok
    /\ ~calls[c].outcome.v.success
    /\ WithoutExecutor(c)

MessageReadError(thrown) ==
    CASE thrown.t = "null" ->
            Err(<<"Cannot read properties of ", "null", " (reading 'message')">>)
      [] thrown.t = "undefined" ->
            Err(<<"Cannot read properties of ", "undefined", " (reading 'message')">>)
      [] OTHER -> Null

\* the lookup of call c threw a value whose message cannot be read
LookupThrewUnreadable(c) ==
    /\ calls[c].via = "register"
    /\ ~calls[c].lookup.ok
    /\ \/ calls[c].lookup.v.t \in {"null", "undefined"}
       \/ calls[c].lookup.v = MessageThrows

engineVars == <<executors, defaultLanguage, regLog, setDefaultResult, py, loadCount,
                calls, microtasks, storeLog, execOrder>>

StoreTexts == {<<>>, <<"a">>, <<" ">>}

\* storeResult(resultString) (part_000:20-64)
storeResult(resultString) ==
    /\ Len(storeOps) < MaxOps
    /\ keyBuffer' = StoreWrite(keyBuffer, resultString)
    /\ storeOps' = Append(storeOps, [op |-> "store", text |-> resultString])
    /\ UNCHANGED <<engineVars, pushTextApi, fmtInput, fmtOutput>>

\* record of a call and the completion it gave
Called(op, arg, completion) == [op |-> op, arg |-> arg, ok |-> completion.ok, v |-> completion.v]

\* registers["r"].keyBuffer = [] when the register exists
ClearedBuffer(buffer) == <<>>

\* clearResults() (part_000:85-99); storeOk is whether the vim register
\* controller can be reached.  When it cannot, the catch block rethrows: the
\* register keeps its content and the promise returned rejects.  fmtOutput
\* records the promise the call returned.
clearResults(storeOk) ==
    /\ Len(storeOps) < MaxOps
    /\ IF storeOk
       THEN /\ keyBuffer' = ClearedBuffer(keyBuffer)
            /\ storeOps' = Append(storeOps, [op |-> "clear", text |-> <<>>])
            /\ fmtOutput' = Called("clearResults", Null, Fulfilled(Undefined))
       ELSE /\ fmtOutput' = Called("clearResults", Null, Rejected(StoreError))
            /\ UNCHANGED <<keyBuffer, storeOps>>
    /\ UNCHANGED <<engineVars, pushTextApi, fmtInput>>

\* getCurrentResult() (part_000:128-143)
getCurrentResult == IF Len(keyBuffer) > 0 THEN Str(keyBuffer[1]) ELSE Null

\* a variant that asks only for an entry in the buffer
hasResultsAnyEntry == Len(keyBuffer) > 0

\* hasResults() (part_000:105-122), as a boolean
hasResults ==
    /\ Len(keyBuffer) > 0
    /\ keyBuffer[1] # <<>>
    /\ Len(Trim(keyBuffer[1])) > 0

InitStore ==
    /\ InitEngine
    /\ pushTextApi \in BOOLEAN
    /\ storeOps = <<>>
    /\ fmtInput = Null
    /\ fmtOutput = Null

NextStore ==
    \/ \E resultString \in StoreTexts : storeResult(resultString)
    \/ clearResults(TRUE)

SpecStore == InitStore /\ [][NextStore]_vars

(***************************************************************************)
(* C11: the results slot is a single-value cell.  After any sequence of    *)
(* storeResult(s) and clearResults() calls getCurrentResult() returns the  *)
(* string of the last storeResult made since the last clearResults, or     *)
(* null when there is none, and the slot never holds more than one value.  *)
(***************************************************************************)
LastStored(ops) ==
    IF ops = <<>> \/ ops[Len(ops)].op = "clear" THEN Null
    ELSE Str(ops[Len(ops)].text)

C11_SingleValueCell ==
    /\ getCurrentResult = LastStored(storeOps)
    /\ Len(keyBuffer) <= 1

\* a value was stored, the slot was cleared, and another value was stored
C11_Witness ==
    /\ Len(storeOps) = 3
    /\ storeOps[1] = [op |-> "store", text |-> <<"a">>]
    /\ storeOps[2].op = "clear"
    /\ storeOps[3] = [op |-> "store", text |-> <<" ">>]
    /\ getCurrentResult = Str(<<" ">>)
    /\ ~pushTextApi

(***************************************************************************)
(* Progress.  The event loop runs the microtask queue until it is empty;   *)
(* nothing obliges a program's promise or the interpreter load to settle.  *)
(***************************************************************************)
RunMicrotask ==
    \/ \E c \in Calls : JsResume(c)
    \/ \E c \in Calls : InitResume(c)
    \/ \E c \in Calls : PyResume(c)
    \/ \E c \in Calls, storeOk \in BOOLEAN : EngineResume(c, storeOk)
    \/ \E c \in Calls : StoreResume(c)
    \/ \E c \in Calls : CallerResume(c)

\* a value, a suspension and a Python run
LiveArguments ==
    {<<Str(SrcAdd), Null>>, <<Str(SrcP), Null>>, <<Str(SrcAdd), Str(NamePY)>>}

NextLive ==
    \/ \E c \in Calls, arguments \in LiveArguments :
          Execute(c, arguments[1], arguments[2])
    \/ Resume

SpecLive == Init /\ [][NextLive]_vars /\ WF_vars(RunMicrotask)

(***************************************************************************)
(* C12: executions are not mutually exclusive.  While an execute call is   *)
(* suspended (on a promise the program returned, or on an interpreter      *)
(* load) and however long it stays so, every other call whose executor has *)
(* finished or is not waiting goes on to return its Outcome to its caller, *)
(* with its result written to the results register when it succeeded.      *)
(***************************************************************************)
Suspended(d) == calls[d].pc \in {"thenable", "load"}

C12_SuspendedCallBlocksNobody ==
    \A c \in Calls : \A d \in Calls \ {c} :
        (Suspended(d) /\ calls[c].pc = "queued")
            ~> (/\ calls[c].pc = "returned"
                /\ calls[c].outcome.ok
                /\ Succeeded(c) => WritesOf(c) # {})

\* the first call is still waiting for its program's promise; the second,
\* made later, has returned and its result is in the register
C12_Witness ==
    /\ calls[1].pc = "thenable"
    /\ calls[2].pc = "returned"
    /\ Succeeded(2)
    /\ keyBuffer = <<calls[2].outcome.v.formattedResult>>

(***************************************************************************)
(* formatResult applied to one value (src/execution/formatters.js).        *)
(***************************************************************************)
\* the strings of at most n characters drawn from chars
Texts(chars, n) == UNION {[1..k -> chars] : k \in 0..n}

\* a source text of n characters: prefix, a filler, suffix
WithLength(prefix, suffix, n) ==
    prefix \o [i \in 1..(n - Len(prefix) - Len(suffix)) |-> "x"] \o suffix

\* sources of functions: declarations, arrows, a method and a class, on one
\* line and on several, and at the lengths where formatFunction decides
FunctionSources ==
    {<<"f", "u", "n", "c", "t", "i", "o", "n", " ", "f", "(", ")", "{", "}">>,
     <<"f", "u", "n", "c", "t", "i", "o", "n", " ", "f", "(", "a", ")", "{", "\n", "}">>,
     <<"a", "s", "y", "n", "c", " ", "f", "u", "n", "c", "t", "i", "o", "n", " ", "f", "(", ")", "{", "\n", "}">>,
     <<"f", "u", "n", "c", "t", "i", "o", "n", " ", "(", ")", "{", "\n", "}">>,
     <<"f", "u", "n", "c", "t", "i", "o", "n", " ", "f", " ", "(", ")", "{", "\n", "}">>,
     <<"f", "u", "n", "c", "t", "i", "o", "n", "*", " ", "g", "(", ")", "{", "\n", "}">>,
     <<"(", "a", ")", "=", ">", "a">>,
     <<"(", "a", ")", "=", ">", "{", "\n", "}">>,
     <<"a", "s", "y", "n", "c", " ", "(", "a", ")", "=", ">", "{", "\n", "}">>,
     <<"a", "=", ">", "{", "\n", "}">>,
     <<"c", "l", "a", "s", "s", " ", "A", "{", "\n", "}">>}
    \cup {WithLength(prefix, <<"}">>, n) :
            prefix \in {<<"f", "u", "n", "c", "t", "i", "o", "n", " ", "f", "(", ")", "{">>,
                        <<"(", "a", ")", "=", ">", "{">>,
                        <<"(", "a", ")", "=", ">", "{", "\n">>,
                        <<"a", "s", "y", "n", "c", "(", "a", ")", "=", ">", "{">>,
                        <<"f", "(", ")", "{">>},
            n \in {49, 50, 99, 100}}

\* elements of arrays: primitives, null, a function, objects and arrays
ArrayItems ==
    {Num(1), Str(<<"a", "\n">>), Bool(TRUE), Null, Undefined,
     Fn(<<"(", ")", "=", ">", "1">>),
     Obj(<<"Object">>, <<<<<<"a">>, Num(1)>>>>, "plain"),
     Obj(<<"Object">>, <<>>, "cyclic"),
     DateValue(TRUE), Arr(<<>>), Arr(<<Num(1)>>)}

\* arrays of every content up to MaxItems elements, and arrays of one
\* repeated element around the length at which formatArray decides
ArrayValues ==
    {Arr(items) : items \in UNION {[1..k -> ArrayItems] : k \in 0..MaxItems}}
    \cup {Arr([i \in 1..n |-> item]) : n \in {5, 6}, item \in ArrayItems}

ResultValues ==
    {Undefined, Null, Bool(TRUE), Bool(FALSE), Err(<<"no">>),
     DateValue(TRUE), DateValue(FALSE)}
    \cup {Num(n) : n \in (0 - MaxNum)..MaxNum}
    \cup {Str(t) : t \in Texts({"a", "\n", "\""}, MaxStrLen)}
    \cup {Obj(<<"Object">>, props, trait) :
            props \in {<<>>, <<<<<<"a">>, Num(1)>>>>,
                      <<<<<<"b">>, Num(2)>>, <<<<"a">>, Str(<<"x">>)>>>>},
            trait \in {"plain", "cyclic", "toJSON"}}
    \cup {Obj(<<"Map">>, <<>>, "plain"), Obj(<<"Point">>, <<>>, "cyclic")}
    \cup {Fn(src) : src \in FunctionSources}
    \cup ArrayValues

InitFormat ==
    /\ InitEngine
    /\ pushTextApi = TRUE
    /\ storeOps = <<>>
    /\ fmtInput \in ResultValues
    /\ fmtOutput = Null

\* formatResult(fmtInput)
FormatResult ==
    /\ fmtOutput = Null
    /\ fmtOutput' = FormatCall(fmtInput)
    /\ UNCHANGED <<engineVars, keyBuffer, pushTextApi, storeOps, fmtInput>>

NextFormat == FormatResult

SpecFormat == InitFormat /\ [][NextFormat]_vars

(***************************************************************************)
(* C13: formatResult is total: for every input value (each primitive type, *)
(* errors, valid and invalid dates, plain, cyclic and unserializable       *)
(* objects) it returns a string, without throwing.  The formatter reads    *)
(* nothing but its argument, so equal inputs give equal outputs.           *)
(***************************************************************************)
C13_FormatResultTotal ==
    fmtOutput # Null => fmtOutput.ok /\ fmtOutput.v.t = "string"

(***************************************************************************)
(* Text formatter (src/vite.config.js:131-398): JSON.                      *)
(* A JavaScript object is the sequence of its own properties in the order  *)
(* Object.keys and JSON.stringify enumerate them: array-index keys first,  *)
(* in ascending numeric order, then the other keys in insertion order.     *)
(***************************************************************************)
CodeUnits == DigitChars \o UpperChars \o <<"_">> \o LowerChars

\* the position of a character in UTF-16 code unit order
Rank(ch) == CHOOSE i \in DOMAIN CodeUnits : CodeUnits[i] = ch

\* a < b as Array.prototype.sort compares strings by default
RECURSIVE KeyLess(_, _)
KeyLess(a, b) ==
    IF b = <<>> THEN FALSE
    ELSE IF a = <<>> THEN TRUE
    ELSE IF Head(a) = Head(b) THEN KeyLess(Tail(a), Tail(b))
    ELSE Rank(Head(a)) < Rank(Head(b))

\* keys.sort() for a set of distinct keys
RECURSIVE SortKeys(_)
SortKeys(keys) ==
    IF keys = {} THEN <<>>
    ELSE LET first == CHOOSE k \in keys : \A other \in keys \ {k} : KeyLess(k, other) IN
         <<first>> \o SortKeys(keys \ {first})

\* a canonical array index: "0", or digits without a leading zero
IsIndexKey(key) ==
    /\ key # <<>>
    /\ \A i \in DOMAIN key : \E d \in DOMAIN DigitChars : DigitChars[d] = key[i]
    /\ Len(key) > 1 => key[1] # "0"

RECURSIVE KeyToNat(_)
KeyToNat(key) ==
    IF key = <<>> THEN 0
    ELSE 10 * KeyToNat(SubSeq(key, 1, Len(key) - 1))
         + (CHOOSE d \in 0..9 : DigitChars[d + 1] = key[Len(key)])

\* defining own property key of an object (CreateDataProperty)
ObjDefine(props, key, value) ==
    IF \E i \in DOMAIN props : props[i][1] = key
    THEN [i \in DOMAIN props |-> IF props[i][1] = key THEN <<key, value>> ELSE props[i]]
    ELSE IF IsIndexKey(key)
    THEN LET n == Cardinality({i \in DOMAIN props :
                                  /\ IsIndexKey(props[i][1])
                                  /\ KeyToNat(props[i][1]) < KeyToNat(key)}) IN
         SubSeq(props, 1, n) \o <<<<key, value>>>> \o SubSeq(props, n + 1, Len(props))
    ELSE Append(props, <<key, value>>)

ProtoKey == <<"_", "_", "p", "r", "o", "t", "o", "_", "_">>

\* the assignment obj[key] = value on an ordinary object: "__proto__" is the
\* accessor of Object.prototype and creates no own property
ObjAssign(props, key, value) ==
    IF key = ProtoKey THEN props ELSE ObjDefine(props, key, value)

At(text, i) == IF i \in DOMAIN text THEN text[i] ELSE ""

RECURSIVE SkipWs(_, _)
SkipWs(text, i) == IF IsSpace(At(text, i)) THEN SkipWs(text, i + 1) ELSE i

ParseFail == [ok |-> FALSE, v |-> Null, i |-> 0]

\* JSON.parse, by recursive descent; each operator gives the value read and
\* the position after it
RECURSIVE ParseValue(_, _), ParseString(_, _, _), ParseNumber(_, _, _),
          ParseMember(_, _, _), ParseElement(_, _, _)
ParseString(text, i, acc) ==
    LET ch == At(text, i) IN
    CASE ch = "\"" -> [ok |-> TRUE, v |-> Str(acc), i |-> i + 1]
      [] ch = "\\" ->
            LET e == At(text, i + 1) IN
            CASE e = "n" -> ParseString(text, i + 2, Append(acc, "\n"))
              [] e = "t" -> ParseString(text, i + 2, Append(acc, "\t"))
              [] e = "r" -> ParseString(text, i + 2, Append(acc, "\r"))
              [] e \in {"\"", "\\"} -> ParseString(text, i + 2, Append(acc, e))
              [] OTHER -> ParseFail
      [] ch \in {"", "\n", "\t", "\r"} -> ParseFail
      [] OTHER -> ParseString(text, i + 1, Append(acc, ch))

\* the characters of word stand in text from position i on
Spelled(text, i, word) == \A k \in DOMAIN word : At(text, i + k - 1) = word[k]

ParseNumber(text, i, acc) ==
    IF \E d \in DOMAIN DigitChars : DigitChars[d] = At(text, i)
    THEN IF acc = <<"0">> THEN ParseFail
         ELSE ParseNumber(text, i + 1, Append(acc, At(text, i)))
    ELSE IF acc = <<>> THEN ParseFail
    ELSE [ok |-> TRUE, v |-> Num(KeyToNat(acc)), i |-> i]

ParseMember(text, i, props) ==
    LET k == SkipWs(text, i)
        key == IF At(text, k) = "\"" THEN ParseString(text, k + 1, <<>>) ELSE ParseFail
        c == IF key.ok THEN SkipWs(text, key.i) ELSE 0
        value == IF key.ok /\ At(text, c) = ":" THEN ParseValue(text, c + 1) ELSE ParseFail
        e == IF value.ok THEN SkipWs(text, value.i) ELSE 0 IN
    IF ~value.ok THEN ParseFail
    ELSE CASE At(text, e) = "," ->
                 ParseMember(text, e + 1, ObjDefine(props, key.v.s, value.v))
           [] At(text, e) = "}" ->
                 [ok |-> TRUE,
                  v |-> Obj(<<"Object">>, ObjDefine(props, key.v.s, value.v), "plain"),
                  i |-> e + 1]
           [] OTHER -> ParseFail

ParseElement(text, i, items) ==
    LET value == ParseValue(text, i)
        e == IF value.ok THEN SkipWs(text, value.i) ELSE 0 IN
    IF ~value.ok THEN ParseFail
    ELSE CASE At(text, e) = "," -> ParseElement(text, e + 1, Append(items, value.v))
           [] At(text, e) = "]" ->
                 [ok |-> TRUE, v |-> Arr(Append(items, value.v)), i |-> e + 1]
           [] OTHER -> ParseFail

ParseValue(text, i) ==
    LET j == SkipWs(text, i)
        ch == At(text, j) IN
    CASE ch = "{" ->
            IF At(text, SkipWs(text, j + 1)) = "}"
            THEN [ok |-> TRUE, v |-> Obj(<<"Object">>, <<>>, "plain"),
                  i |-> SkipWs(text, j + 1) + 1]
            ELSE ParseMember(text, j + 1, <<>>)
      [] ch = "[" ->
            IF At(text, SkipWs(text, j + 1)) = "]"
            THEN [ok |-> TRUE, v |-> Arr(<<>>), i |-> SkipWs(text, j + 1) + 1]
            ELSE ParseElement(text, j + 1, <<>>)
      [] ch = "\"" -> ParseString(text, j + 1, <<>>)
      [] ch = "null" -> [ok |-> TRUE, v |-> Null, i |-> j + 1]
      [] ch = "true" -> [ok |-> TRUE, v |-> Bool(TRUE), i |-> j + 1]
      [] ch = "false" -> [ok |-> TRUE, v |-> Bool(FALSE), i |-> j + 1]
      [] Spelled(text, j, <<"n", "u", "l", "l">>) -> [ok |-> TRUE, v |-> Null, i |-> j + 4]
      [] Spelled(text, j, <<"t", "r", "u", "e">>) -> [ok |-> TRUE, v |-> Bool(TRUE), i |-> j + 4]
      [] Spelled(text, j, <<"f", "a", "l", "s", "e">>) ->
            [ok |-> TRUE, v |-> Bool(FALSE), i |-> j + 5]
      [] OTHER -> ParseNumber(text, j, <<>>)

JsonParse(text) ==
    LET r == ParseValue(text, 1) IN
    IF r.ok /\ SkipWs(text, r.i) > Len(text) THEN Fulfilled(r.v)
    ELSE Rejected(Err(<<"Unexpected token">>))

\* obj[key] for an own property
Get(props, key) == props[CHOOSE i \in DOMAIN props : props[i][1] = key][2]

KeysOf(props) == {props[i][1] : i \in DOMAIN props}

\* sortObjectKeys (vite.config.js:175-193)
RECURSIVE sortObjectKeys(_), AssignSorted(_, _, _)
AssignSorted(sortedKeys, source, sortedObj) ==
    IF sortedKeys = <<>> THEN sortedObj
    ELSE AssignSorted(Tail(sortedKeys), source,
                      ObjAssign(sortedObj, Head(sortedKeys),
                                sortObjectKeys(Get(source, Head(sortedKeys)))))

sortObjectKeys(obj) ==
    CASE obj.t = "array" -> Arr([i \in DOMAIN obj.items |-> sortObjectKeys(obj.items[i])])
      [] obj.t = "object" ->
            Obj(<<"Object">>, AssignSorted(SortKeys(KeysOf(obj.props)), obj.props, <<>>),
                "plain")
      [] OTHER -> obj

NO_TEXT_TO_FORMAT == <<"No text to format">>

\* formatJSON (vite.config.js:146-168): the text returned or the Error thrown
formatJSON(jsonText) ==
    LET text == Trim(jsonText)
        parsed == JsonParse(text) IN
    IF text = <<>> THEN Rejected(Err(NO_TEXT_TO_FORMAT))
    ELSE IF parsed.ok THEN Fulfilled(Str(Stringify(sortObjectKeys(parsed.v), 4, 0)))
    ELSE Rejected(Err(<<"Invalid JSON: ">> \o parsed.v.message))

(***************************************************************************)
(* Text formatter: whitespace cleaning.                                    *)
(***************************************************************************)
\* text.split(/\r?\n/), line being the part of the current line read so far
RECURSIVE SplitLines(_, _)
SplitLines(text, line) ==
    IF text = <<>> THEN <<line>>
    ELSE IF Head(text) = "\n" THEN <<line>> \o SplitLines(Tail(text), <<>>)
    ELSE IF Head(text) = "\r" /\ At(text, 2) = "\n"
    THEN <<line>> \o SplitLines(Tail(Tail(text)), <<>>)
    ELSE SplitLines(Tail(text), Append(line, Head(text)))

\* a variant that removes one trailing empty line only
DropOneEmpty(lines) ==
    IF lines # <<>> /\ lines[Len(lines)] = <<>> THEN SubSeq(lines, 1, Len(lines) - 1)
    ELSE lines

\* while (lines.length > 0 && lines[lines.length - 1] === "") lines.pop()
RECURSIVE DropTrailingEmpty(_)
DropTrailingEmpty(lines) ==
    IF lines # <<>> /\ lines[Len(lines)] = <<>>
    THEN DropTrailingEmpty(SubSeq(lines, 1, Len(lines) - 1))
    ELSE lines

\* lines.join(separator)
RECURSIVE Join(_, _)
Join(lines, separator) ==
    IF lines = <<>> THEN <<>>
    ELSE IF Len(lines) = 1 THEN lines[1]
    ELSE lines[1] \o separator \o Join(Tail(lines), separator)

\* a variant that strips both ends of the line
CleanLineBothEnds(line) == Trim(line)

\* line.replace(/\s+$/, "")
CleanLine(line) == TrimEnd(line)

\* formatClean (vite.config.js:200-221)
formatClean(text) ==
    IF text = <<>> THEN text
    ELSE LET lines == SplitLines(text, <<>>) IN
         Join(DropTrailingEmpty([i \in DOMAIN lines |-> CleanLine(lines[i])]), <<"\n">>)

(***************************************************************************)
(* Text formatter: tables.                                                 *)
(***************************************************************************)
MIN_TABLE_COLUMN_WIDTH == 3

Count(text, ch) == Cardinality({i \in DOMAIN text : text[i] = ch})

\* FORMAT_PATTERNS.MULTI_SPACE_REGEX, /\s{2,}/, matches somewhere in the line
HasSpaceRun(line) == \E i \in DOMAIN line : IsSpace(line[i]) /\ IsSpace(At(line, i + 1))

\* detectDelimiter (vite.config.js:316-337); "\\s{2,}" stands for the regex
detectDelimiter(firstLine) ==
    LET commas == Count(firstLine, ",")
        tabs == Count(firstLine, "\t")
        pipes == Count(firstLine, "|")
        semicolons == Count(firstLine, ";") IN
    CASE tabs > 0 /\ tabs >= commas -> "\t"
      [] pipes > 0 /\ pipes >= commas -> "|"
      [] semicolons > 0 /\ semicolons >= commas -> ";"
      [] commas > 0 -> ","
      [] HasSpaceRun(firstLine) -> "\\s{2,}"
      [] OTHER -> ","

\* the number of whitespace characters text begins with
RECURSIVE SpaceRun(_)
SpaceRun(text) == IF text # <<>> /\ IsSpace(Head(text)) THEN 1 + SpaceRun(Tail(text)) ELSE 0

\* line.split(delimiter), cell being the part of the current cell read so far
RECURSIVE SplitOn(_, _, _)
SplitOn(line, delimiter, cell) ==
    IF line = <<>> THEN <<cell>>
    ELSE IF delimiter = "\\s{2,}" /\ SpaceRun(line) >= 2
    THEN <<cell>> \o SplitOn(SubSeq(line, SpaceRun(line) + 1, Len(line)), delimiter, <<>>)
    ELSE IF Head(line) = delimiter THEN <<cell>> \o SplitOn(Tail(line), delimiter, <<>>)
    ELSE SplitOn(Tail(line), delimiter, Append(cell, Head(line)))

Max(numbers) == CHOOSE n \in numbers : \A m \in numbers : m <= n

\* the rows of the table: trimmed cells, every row filled up with empty
\* cells to the largest number of columns (vite.config.js:235-256)
TableRows(text) ==
    LET lines == SplitLines(Trim(text), <<>>)
        delimiter == detectDelimiter(lines[1])
        cells == [i \in DOMAIN lines |->
                     LET row == SplitOn(lines[i], delimiter, <<>>) IN
                     [j \in DOMAIN row |-> Trim(row[j])]]
        maxColumns == Max({Len(cells[i]) : i \in DOMAIN cells}) IN
    [i \in DOMAIN cells |->
        [j \in 1..maxColumns |-> IF j <= Len(cells[i]) THEN cells[i][j] ELSE <<>>]]

\* text.length: the number of characters of a text, whose elements are
\* single characters or literals of several characters such as null
RECURSIVE Length(_)
Length(text) == IF text = <<>> THEN 0 ELSE Len(Head(text)) + Length(Tail(text))

\* columnWidths (vite.config.js:259-267)
ColumnWidths(rows) ==
    [col \in DOMAIN rows[1] |->
        Max({Max({Length(rows[row][col]) : row \in DOMAIN rows}), MIN_TABLE_COLUMN_WIDTH})]

\* a variant that does not pad
PadEndNone(cell, width) == cell

\* String(cell).padEnd(width)
PadEnd(cell, width) == cell \o [i \in 1..(width - Length(cell)) |-> " "]

\* formatTable (vite.config.js:228-309): the text returned or the Error thrown
formatTable(text) ==
    IF Trim(text) = <<>> THEN Rejected(Err(NO_TEXT_TO_FORMAT))
    ELSE LET rows == TableRows(text)
             columnWidths == ColumnWidths(rows)
             Line(row) ==
                 <<"|", " ">>
                 \o Join([j \in DOMAIN row |-> PadEnd(row[j], columnWidths[j])],
                         <<" ", "|", " ">>)
                 \o <<" ", "|">>
             separatorLine ==
                 <<"|">>
                 \o Join([j \in DOMAIN columnWidths |->
                             [i \in 1..(columnWidths[j] + 2) |-> "-"]], <<"|">>)
                 \o <<"|">> IN
         Fulfilled(Str(Join(<<Line(rows[1]), separatorLine>>
                            \o [i \in 1..(Len(rows) - 1) |-> Line(rows[i + 1])],
                            <<"\n">>)))

(***************************************************************************)
(* Text formatter: detection and dispatch.                                 *)
(***************************************************************************)
FormatAuto == <<"a", "u", "t", "o">>
FormatJson == <<"j", "s", "o", "n">>
FormatCleanType == <<"c", "l", "e", "a", "n">>
FormatTableType == <<"t", "a", "b", "l", "e">>
FormatUnknown == <<"u", "n", "k", "n", "o", "w", "n">>

UNSUPPORTED_FORMAT(format) ==
    <<"Unsupported format type: ">> \o format
    \o <<". Currently supported: 'json', 'clean', 'table'.">>

\* a variant that looks at the first and the last character only
detectFormatByBrackets(text) ==
    LET trimmed == Trim(text) IN
    IF /\ trimmed # <<>>
       /\ Head(trimmed) \in {"{", "["}
       /\ trimmed[Len(trimmed)] \in {"}", "]"}
    THEN FormatJson
    ELSE FormatUnknown

\* detectFormat (vite.config.js:344-362)
detectFormat(text) ==
    LET trimmed == Trim(text) IN
    IF /\ trimmed # <<>>
       /\ Head(trimmed) \in {"{", "["}
       /\ trimmed[Len(trimmed)] \in {"}", "]"}
       /\ JsonParse(trimmed).ok
    THEN FormatJson
    ELSE FormatUnknown

\* a variant that dispatches on the type as given
DispatchKeyRaw(detectedFormat) == detectedFormat

\* the value the switch of formatText compares: detectedFormat.toLowerCase()
DispatchKey(detectedFormat) == ToLowerCase(detectedFormat)

\* { text: formattedText, format: detectedFormat }
TextResult(formattedText, detectedFormat) ==
    [t |-> "formatResult", text |-> formattedText, format |-> Str(detectedFormat)]

\* what formatText makes of a formatter's completion: its Error goes on to
\* the caller, its text is wrapped with the format
Formatted(completion, detectedFormat) ==
    IF completion.ok THEN Fulfilled(TextResult(completion.v, detectedFormat))
    ELSE completion

\* formatText (vite.config.js:371-398): the result returned or the Error thrown
formatText(text, formatType) ==
    LET detectedFormat == IF formatType = FormatAuto THEN detectFormat(text) ELSE formatType
        key == DispatchKey(detectedFormat) IN
    CASE key = FormatJson -> Formatted(formatJSON(text), detectedFormat)
      [] key = FormatCleanType -> Formatted(Fulfilled(Str(formatClean(text))), detectedFormat)
      [] key = FormatTableType -> Formatted(formatTable(text), detectedFormat)
      [] OTHER -> Rejected(Err(UNSUPPORTED_FORMAT(detectedFormat)))

(***************************************************************************)
(* The text formatter applied to one text.                                 *)
(***************************************************************************)
JsonKeys == {<<"a">>, <<"b">>, <<"1", "0">>, <<"9">>, ProtoKey}
JsonLeaves == {Num(1), Null, Str(<<"x">>)}

\* objects of at most MaxKeys members, in every textual order
FlatObjects ==
    {Obj(<<"Object">>, props, "plain") :
        props \in UNION {[1..k -> JsonKeys \X JsonLeaves] : k \in 0..MaxKeys}}

NestedObjects ==
    {Obj(<<"Object">>, <<<<<<"b">>, Num(1)>>, <<<<"a">>, Num(1)>>>>, "plain"),
     Obj(<<"Object">>, <<<<<<"1", "0">>, Num(1)>>, <<<<"9">>, Num(1)>>>>, "plain"),
     Obj(<<"Object">>, <<<<ProtoKey, Num(1)>>>>, "plain")}

JsonDocs ==
    JsonLeaves \cup FlatObjects
    \cup {Arr(<<n>>) : n \in NestedObjects}
    \cup {Arr(<<a, b>>) : a \in JsonLeaves, b \in JsonLeaves}
    \cup {Obj(<<"Object">>, <<<<k, n>>>>, "plain") : k \in {<<"a">>, ProtoKey}, n \in NestedObjects}

\* a text written one character per element
RECURSIVE Chars(_)
Chars(text) ==
    IF text = <<>> THEN <<>>
    ELSE (CASE Head(text) = "null" -> <<"n", "u", "l", "l">>
            [] Head(text) = "true" -> <<"t", "r", "u", "e">>
            [] Head(text) = "false" -> <<"f", "a", "l", "s", "e">>
            [] OTHER -> <<Head(text)>>)
         \o Chars(Tail(text))

\* valid JSON texts, and a few texts that are not JSON
JsonTexts ==
    {Chars(Stringify(doc, 0, 0)) : doc \in JsonDocs}
    \cup {Chars(<<" ">> \o Stringify(doc, 2, 0) \o <<"\n">>) : doc \in NestedObjects}
    \cup {<<>>, <<" ">>, <<"{">>, <<"{", "\"", "a", "\"", "}">>, <<"[", "1", ",", "]">>,
          <<"{", "]">>, <<"[", "1", "}">>, <<" ", "1", " ">>}

\* texts with every mix of line endings and trailing whitespace
CleanTexts == Texts({"a", " ", "\n", "\r", ","}, MaxTextLen)

\* tables with cells wider than the minimum, ragged rows and each delimiter
TableTexts ==
    {<<"a", "a", "a", "a", ",", "b", "\n", "1", ",", "2", ",", "3">>,
     <<"a", "\t", "b", ",", "c", "\r", "\n", "1", "\t", "2", "\t", "\t", "3">>,
     <<"a", "|", "b", "b", "b", "b", "b", "\n", "\n", "c">>,
     <<"a", ";", "b", "\n", "c", ",", "d", ";">>,
     <<"a", " ", "b", " ", " ", "c", "\n", " ", " ", " ", "d", " ", " ", "e">>,
     <<"a", " ", "b", "\n", "c", ",", "d">>,
     <<"a", "\t", "b", "|", "c", "|", "d">>,
     <<"a", ";", "b", ";", "c", "|", "d">>,
     <<"a", ",", "b", ",", "c", "|", "d">>,
     <<"a", ",", "b", "|", "c">>}

TextInputs == JsonTexts \cup CleanTexts \cup TableTexts

InitText ==
    /\ InitEngine
    /\ pushTextApi = TRUE
    /\ storeOps = <<>>
    /\ fmtInput \in {Str(text) : text \in TextInputs}
    /\ fmtOutput = Null

FormatJSON ==
    /\ fmtOutput = Null
    /\ fmtOutput' = Called("formatJSON", Null, formatJSON(fmtInput.s))
    /\ UNCHANGED <<engineVars, keyBuffer, pushTextApi, storeOps, fmtInput>>

FormatClean ==
    /\ fmtOutput = Null
    /\ fmtOutput' = Called("formatClean", Null, Fulfilled(Str(formatClean(fmtInput.s))))
    /\ UNCHANGED <<engineVars, keyBuffer, pushTextApi, storeOps, fmtInput>>

FormatTable ==
    /\ fmtOutput = Null
    /\ fmtOutput' = Called("formatTable", Null, formatTable(fmtInput.s))
    /\ UNCHANGED <<engineVars, keyBuffer, pushTextApi, storeOps, fmtInput>>

\* requested format types: the supported ones, their case variants, and others
FormatTypes ==
    {FormatAuto, FormatJson, FormatCleanType, FormatTableType, FormatUnknown,
     <<"J", "S", "O", "N">>, <<"C", "l", "e", "a", "n">>, <<"t", "a", "b", "l", "E">>,
     <<"A", "u", "t", "o">>, <<"x", "m", "l">>, <<"j", "s", "o">>, <<>>}

FormatText ==
    /\ fmtOutput = Null
    /\ \E formatType \in FormatTypes :
          fmtOutput' = Called("formatText", Str(formatType), formatText(fmtInput.s, formatType))
    /\ UNCHANGED <<engineVars, keyBuffer, pushTextApi, storeOps, fmtInput>>

\* detectDelimiter(lines[0]), as formatTable calls it for a text that is
\* not blank
DetectDelimiter ==
    /\ fmtOutput = Null
    /\ Trim(fmtInput.s) # <<>>
    /\ fmtOutput' = Called("detectDelimiter", Null,
                           Fulfilled(detectDelimiter(SplitLines(Trim(fmtInput.s), <<>>)[1])))
    /\ UNCHANGED <<engineVars, keyBuffer, pushTextApi, storeOps, fmtInput>>

NextText ==
    \/ DetectDelimiter
    \/ FormatJSON
    \/ FormatClean
    \/ FormatTable
    \/ FormatText

SpecText == InitText /\ [][NextText]_vars

(***************************************************************************)
(* C14: for every valid JSON input text, formatJSON returns a text whose   *)
(* parse is deep-equal to the parse of the input: no key or value is lost, *)
(* added or changed, whatever the key names are.                           *)
(***************************************************************************)
RECURSIVE DeepEqual(_, _)
DeepEqual(a, b) ==
    CASE a.t = "object" /\ b.t = "object" ->
            /\ KeysOf(a.props) = KeysOf(b.props)
            /\ \A key \in KeysOf(a.props) : DeepEqual(Get(a.props, key), Get(b.props, key))
      [] a.t = "array" /\ b.t = "array" ->
            /\ Len(a.items) = Len(b.items)
            /\ \A i \in DOMAIN a.items : DeepEqual(a.items[i], b.items[i])
      [] OTHER -> a = b

IsCall(op) == fmtOutput # Null /\ fmtOutput.op = op

C14_RoundTrip ==
    (IsCall("formatJSON") /\ JsonParse(Trim(fmtInput.s)).ok) =>
        /\ fmtOutput.ok
        /\ JsonParse(fmtOutput.v.s).ok
        /\ DeepEqual(JsonParse(fmtOutput.v.s).v, JsonParse(Trim(fmtInput.s)).v)

(***************************************************************************)
(* C15: in the text formatJSON returns, the keys of every object at every  *)
(* nesting depth, objects inside arrays included, appear in ascending      *)
(* string order.  The text is the rendering of the value printed, member   *)
(* by member, so the order is read off that value.                         *)
(***************************************************************************)
RECURSIVE KeysAscending(_)
KeysAscending(v) ==
    CASE v.t = "object" ->
            /\ \A i \in DOMAIN v.props : \A j \in DOMAIN v.props :
                  i < j => KeyLess(v.props[i][1], v.props[j][1])
            /\ \A i \in DOMAIN v.props : KeysAscending(v.props[i][2])
      [] v.t = "array" -> \A i \in DOMAIN v.items : KeysAscending(v.items[i])
      [] OTHER -> TRUE

C15_KeysAscending ==
    (IsCall("formatJSON") /\ fmtOutput.ok) =>
        \E doc \in {sortObjectKeys(JsonParse(Trim(fmtInput.s)).v)} :
            /\ fmtOutput.v.s = Stringify(doc, 4, 0)
            /\ KeysAscending(doc)

(***************************************************************************)
(* C16: formatClean is idempotent: cleaning the text it returned returns   *)
(* that text again, for every mix of LF, CRLF and CR characters and of     *)
(* trailing whitespace in the original text.                               *)
(***************************************************************************)
C16_CleanIdempotent ==
    IsCall("formatClean") => formatClean(fmtOutput.v.s) = fmtOutput.v.s

\* a text with trailing whitespace, a CRLF ending and trailing empty lines
\* was cleaned
C16_Witness ==
    /\ IsCall("formatClean")
    /\ fmtInput.s = <<"a", " ", "\r", "\n">>
    /\ fmtOutput.v.s = <<"a">>

(***************************************************************************)
(* C17: for every non-blank text, whose trimmed form has n lines,          *)
(* formatTable returns n + 1 lines of one length: the first row as header, *)
(* beneath it one separator line of dashes and pipes, then the remaining   *)
(* rows in order.  Every row has the largest number of columns; column c   *)
(* is as wide as its longest trimmed cell and at least 3 wide, and in each *)
(* row line the cell of column c, filled up with spaces, stands at the     *)
(* offset the widths of the columns before it give.                        *)
(***************************************************************************)
\* where the cell of column c begins in a row line, given the column widths
RECURSIVE OffsetOf(_, _)
OffsetOf(widths, c) == IF c = 1 THEN 3 ELSE OffsetOf(widths, c - 1) + widths[c - 1] + 3

C17_TableLayout ==
    (IsCall("formatTable") /\ Trim(fmtInput.s) # <<>>) =>
        LET n == Len(SplitLines(Trim(fmtInput.s), <<>>))
            rows == TableRows(fmtInput.s)
            out == SplitLines(fmtOutput.v.s, <<>>)
            Width(c) == LET longest == Max({Length(rows[r][c]) : r \in DOMAIN rows}) IN
                        IF longest > 3 THEN longest ELSE 3
            Offset(c) == OffsetOf([k \in DOMAIN rows[1] |-> Width(k)], c)
            LineOf(r) == IF r = 1 THEN out[1] ELSE out[r + 1] IN
        /\ fmtOutput.ok
        /\ Len(rows) = n
        /\ Len(out) = n + 1
        /\ \A i \in DOMAIN out : Len(out[i]) = Len(out[1])
        /\ \A i \in DOMAIN out[2] : out[2][i] \in {"-", "|"}
        /\ \A r \in DOMAIN rows :
              /\ Len(rows[r]) = Len(rows[1])
              /\ \A c \in DOMAIN rows[r] :
                    LET field == SubSeq(LineOf(r), Offset(c), Offset(c) + Width(c) - 1) IN
                    /\ SubSeq(field, 1, Len(rows[r][c])) = rows[r][c]
                    /\ \A i \in (Len(rows[r][c]) + 1)..Width(c) : field[i] = " "
                    /\ SubSeq(LineOf(r), Offset(c) - 2, Offset(c) - 1) = <<"|", " ">>
              /\ Len(LineOf(r)) = Offset(Len(rows[r])) + Width(Len(rows[r])) + 1

\* a table whose first column is wider than the minimum and whose header
\* row is shorter than its data row
C17_Witness ==
    /\ IsCall("formatTable")
    /\ fmtInput.s = <<"a", "a", "a", "a", ",", "b", "\n", "1", ",", "2", ",", "3">>
    /\ SplitLines(fmtOutput.v.s, <<>>) =
          << <<"|", " ", "a", "a", "a", "a", " ", "|", " ", "b", " ", " ", " ", "|",
               " ", " ", " ", " ", " ", "|">>,
             <<"|", "-", "-", "-", "-", "-", "-", "|", "-", "-", "-", "-", "-", "|",
               "-", "-", "-", "-", "-", "|">>,
             <<"|", " ", "1", " ", " ", " ", " ", "|", " ", "2", " ", " ", " ", "|",
               " ", "3", " ", " ", " ", "|">> >>

(***************************************************************************)
(* C18 as stated: formatText fails with UnsupportedFormat{type} for every  *)
(* requested type that is not exactly "auto", "json", "clean" or "table",  *)
(* and the format field of every result is "json", "clean" or "table".     *)
(***************************************************************************)
SupportedFormats == {FormatJson, FormatCleanType, FormatTableType}

C18_Original ==
    IsCall("formatText") =>
        /\ fmtOutput.arg.s \notin SupportedFormats \cup {FormatAuto} =>
              /\ ~fmtOutput.ok
              /\ fmtOutput.v = Err(UNSUPPORTED_FORMAT(fmtOutput.arg.s))
        /\ fmtOutput.ok => fmtOutput.v.format.s \in SupportedFormats

(***************************************************************************)
(* C18: formatText dispatches on the lower-cased type: a type that reads   *)
(* "json", "clean" or "table" in any letter case gets that formatter's     *)
(* text, or its error; every other type but "auto" fails with              *)
(* UnsupportedFormat{type}; "auto" gives the JSON formatting under format  *)
(* "json" or fails with UnsupportedFormat{unknown}.  The format field of a *)
(* result is the type as requested ("json" under "auto"), so it reads      *)
(* "json", "clean" or "table" once lower-cased.                            *)
(***************************************************************************)
C18_Dispatch ==
    IsCall("formatText") =>
        LET type == fmtOutput.arg.s
            text == fmtInput.s
            Outcome(completion) ==
                /\ fmtOutput.ok = completion.ok
                /\ IF completion.ok
                   THEN fmtOutput.v.text = completion.v /\ fmtOutput.v.format = Str(type)
                   ELSE fmtOutput.v = completion.v IN
        /\ (type # FormatAuto /\ ToLowerCase(type) = FormatJson) => Outcome(formatJSON(text))
        /\ (type # FormatAuto /\ ToLowerCase(type) = FormatCleanType) =>
              Outcome(Fulfilled(Str(formatClean(text))))
        /\ (type # FormatAuto /\ ToLowerCase(type) = FormatTableType) =>
              Outcome(formatTable(text))
        /\ (type # FormatAuto /\ ToLowerCase(type) \notin SupportedFormats) =>
              /\ ~fmtOutput.ok
              /\ fmtOutput.v = Err(UNSUPPORTED_FORMAT(type))
        /\ type = FormatAuto =>
              IF fmtOutput.ok
              THEN /\ fmtOutput.v.format = Str(FormatJson)
                   /\ fmtOutput.v.text = formatJSON(text).v
              ELSE fmtOutput.v = Err(UNSUPPORTED_FORMAT(FormatUnknown))
        /\ fmtOutput.ok => ToLowerCase(fmtOutput.v.format.s) \in SupportedFormats

\* the type "JSON" is dispatched to the JSON formatter and comes back as
\* the format of the result
C18_Witness ==
    /\ IsCall("formatText")
    /\ fmtOutput.arg.s = <<"J", "S", "O", "N">>
    /\ fmtInput.s = <<"[", "1", ",", "1", "]">>
    /\ fmtOutput.ok
    /\ fmtOutput.v.format.s = <<"J", "S", "O", "N">>
    /\ fmtOutput.v.text = formatJSON(fmtInput.s).v

(***************************************************************************)
(* C19: an execute call that reaches a PythonExecutor while its load is in *)
(* flight starts no load of its own and awaits the load in flight; and     *)
(* whenever a call runs its source, it runs it against the runtime the     *)
(* load it awaited produced (the executor's runtime, if it found one       *)
(* present), never against none or another.                                *)
(***************************************************************************)
C19_CallersShareTheLoad ==
    [][\A c \in Calls : \A p \in PyInstances :
          /\ ( /\ calls[c].pc = "idle" /\ calls'[c].pc # "idle"
               /\ calls'[c].executor = p
               /\ ~InvalidCode(calls'[c].code)
               /\ py[p].isLoading )
             => /\ loadCount'[p] = loadCount[p]
                /\ calls'[c].awaited = loadCount[p]
                /\ ~calls'[c].starter
                /\ py'[p].loadPromise.state = py[p].loadPromise.state
                /\ py[p].loadPromise.state = "pending" =>
                      /\ calls'[c].pc = "load"
                      /\ \E i \in DOMAIN py'[p].loadPromise.waiters :
                            py'[p].loadPromise.waiters[i] = c
          /\ (HeadIs("py", c) /\ calls[c].executor = p /\ execOrder' = Append(execOrder, c))
             => IF calls[c].settled.ok
                THEN /\ calls'[c].runtime # Null
                     /\ calls'[c].runtime = py[p].pyodide
                     /\ calls[c].awaited > 0 =>
                           calls'[c].runtime = Runtime(p, calls[c].awaited)
                ELSE /\ calls'[c].runtime = Null
                     /\ ~calls'[c].settled.ok
      ]_vars

\* the second call reached the executor while the first call's load was in
\* flight, and both ran against the runtime of that one load
C19_Witness ==
    /\ MaxCalls >= 2
    /\ calls[1].starter /\ ~calls[2].starter
    /\ calls[1].executor = calls[2].executor
    /\ calls[2].awaited = 1
    /\ loadCount[calls[1].executor] = 1
    /\ calls[1].runtime = Runtime(calls[1].executor, 1)
    /\ calls[2].runtime = Runtime(calls[1].executor, 1)
    /\ Succeeded(1) /\ Succeeded(2)

(***************************************************************************)
(* C20: isReady() of a PythonExecutor is true only when a load of its      *)
(* runtime has been fulfilled and the executor holds the runtime of that   *)
(* load; it is false before any load, while a load is in flight, and after *)
(* a failed load; and the executor never holds a runtime while its loading *)
(* flag is set.                                                            *)
(***************************************************************************)
C20_ReadyOnlyAfterLoad ==
    \A p \in PyInstances :
        /\ isReady(p) =>
              /\ py[p].loadPromise.state = "fulfilled"
              /\ py[p].pyodide = py[p].loadPromise.v
              /\ py[p].pyodide = Runtime(p, loadCount[p])
        /\ loadCount[p] = 0 => ~isReady(p)
        /\ py[p].loadPromise.state \in {"pending", "rejected"} => ~isReady(p)
        /\ py[p].isLoading => ~isReady(p)
        /\ ~(py[p].pyodide # Null /\ py[p].isLoading)

\* one executor is ready after its load, the other is not after its failed
\* load
C20_Witness ==
    \E p, q \in PyInstances :
        /\ isReady(p)
        /\ py[p].loadPromise.state = "fulfilled"
        /\ py[q].loadPromise.state = "rejected"
        /\ ~py[q].isLoading
        /\ ~isReady(q)

(***************************************************************************)
(* Execute calls with sources that are empty or no strings, among calls    *)
(* with a valid source, on both the JavaScript and the Python executors.   *)
(***************************************************************************)
InvalidArguments ==
    {<<Str(<<>>), Null>>, <<Null, Null>>, <<Num(1), Null>>, <<Str(SrcAdd), Null>>,
     <<Str(<<>>), Str(NamePY)>>, <<Undefined, Str(NamePY)>>, <<Num(0), Str(NamePython)>>,
     <<Str(SrcAdd), Str(NamePY)>>}

NextInvalid ==
    \/ \E c \in Calls, arguments \in InvalidArguments :
          Execute(c, arguments[1], arguments[2])
    \/ \E p \in PyInstances, ok \in BOOLEAN : LoadSettle(p, ok)
    \/ \E c \in Calls : InitResume(c)
    \/ \E c \in Calls : PyResume(c)
    \/ \E c \in Calls, storeOk \in BOOLEAN : EngineResume(c, storeOk)
    \/ \E c \in Calls : StoreResume(c)
    \/ \E c \in Calls : CallerResume(c)

SpecInvalid == Init /\ [][NextInvalid]_vars

(***************************************************************************)
(* C21: the JavaScript and the Python executor reject a source that is     *)
(* empty or not a string with "Invalid code: expected non-empty string"    *)
(* before doing anything else: the call neither starts nor joins a runtime *)
(* load and leaves the executor's fields as they are, and the engine turns *)
(* the rejection into a failed Outcome without writing the results slot.   *)
(***************************************************************************)
RejectedAsInvalid(c) ==
    /\ calls[c].pc # "idle"
    /\ calls[c].executor \in JsInstances \cup PyInstances
    /\ Falsy(calls[c].code) \/ ~IsString(calls[c].code)

C21_InvalidSourceRejected ==
    [][\A c \in Calls :
          /\ (calls[c].pc = "idle" /\ RejectedAsInvalid(c)') =>
                /\ py' = py /\ loadCount' = loadCount
                /\ calls'[c].pc = "queued"
                /\ calls'[c].settled = Rejected(Err(INVALID_CODE))
                /\ ~calls'[c].starter /\ calls'[c].awaited = 0
                /\ keyBuffer' = keyBuffer /\ storeLog' = storeLog
          /\ (RejectedAsInvalid(c) /\ calls'[c] # calls[c]) =>
                /\ py' = py /\ loadCount' = loadCount
                /\ keyBuffer' = keyBuffer /\ storeLog' = storeLog
                /\ calls'[c].runtime = Null
                /\ Finished(c)' =>
                      /\ calls'[c].outcome.ok
                      /\ ~calls'[c].outcome.v.success
                      /\ calls'[c].outcome.v.error = Str(INVALID_CODE)
      ]_vars

\* an empty source handed to a Python executor that has no runtime ended as
\* a failed Outcome; the executor is still without runtime or load, and the
\* results slot still holds the result of the call before
C21_Witness ==
    /\ MaxCalls >= 2
    /\ Succeeded(1) /\ keyBuffer = <<<<"2">>>>
    /\ calls[2].code = Str(<<>>) /\ calls[2].executor \in PyInstances
    /\ Failed(2)
    /\ calls[2].outcome.v.error = Str(INVALID_CODE)
    /\ py[calls[2].executor].pyodide = Null
    /\ ~py[calls[2].executor].isLoading
    /\ loadCount[calls[2].executor] = 0

(***************************************************************************)
(* C22: formatResult gives the source text of a function as it is only     *)
(* when the text has fewer than 100 characters and no line break; for      *)
(* every other function it gives a summary ending in "() { ... }" or       *)
(* "(...) => { ... }", or "[Function]", and never the source itself.       *)
(***************************************************************************)
C22_FunctionSummary ==
    (fmtOutput # Null /\ fmtInput.t = "function") =>
        LET fnString == fmtInput.src
            out == fmtOutput.v.s IN
        IF Len(fnString) < 100 /\ \A i \in DOMAIN fnString : fnString[i] # "\n"
        THEN out = fnString
        ELSE /\ out # fnString
             /\ out[Len(out)] \in {"() { ... }", "(...) => { ... }", "[Function]"}

(***************************************************************************)
(* C23 as stated: the empty array renders as "[]", an array of at most 5   *)
(* elements that are all primitives or null as single-line JSON, and every *)
(* other array as indented multi-line JSON.                                *)
(***************************************************************************)
IsPrimitive(v) == v.t \in {"undefined", "null", "string", "number", "boolean"}

IsArrayCall == fmtOutput # Null /\ fmtInput.t = "array"

C23_Original ==
    IsArrayCall =>
        LET items == fmtInput.items
            out == fmtOutput.v.s IN
        CASE Len(items) = 0 -> out = <<"[", "]">>
          [] Len(items) \in 1..5 /\ \A i \in DOMAIN items : IsPrimitive(items[i]) ->
                out = Stringify(fmtInput, 0, 0) /\ ~Includes(out, "\n")
          [] OTHER -> out = Stringify(fmtInput, 2, 0) /\ Includes(out, "\n")

(***************************************************************************)
(* C23: the empty array renders as "[]".  A non-empty array that           *)
(* JSON.stringify cannot serialize (it reaches an object referring to      *)
(* itself) renders as "[Object Array]".  Of the others, an array of at     *)
(* most 5 elements none of which is an object other than null (primitives, *)
(* null, undefined and functions) renders as JSON on one line, and every   *)
(* other array as JSON indented by 2, one element per line between "[" and *)
(* "]".                                                                    *)
(***************************************************************************)
C23_ArrayRendering ==
    IsArrayCall =>
        LET items == fmtInput.items
            out == fmtOutput.v.s
            breaks == {i \in DOMAIN out : out[i] = "\n"} IN
        /\ fmtOutput.ok /\ fmtOutput.v.t = "string"
        /\ CASE Len(items) = 0 -> out = <<"[", "]">>
             [] Len(items) > 0 /\ Throws(fmtInput) -> out = <<"[Object ", "Array", "]">>
             [] /\ Len(items) \in 1..5 /\ ~Throws(fmtInput)
                /\ \A i \in DOMAIN items :
                      IsPrimitive(items[i]) \/ items[i].t = "function" ->
                   /\ out = Stringify(fmtInput, 0, 0)
                   /\ ~Includes(out, "\n")
                   /\ Head(out) = "[" /\ out[Len(out)] = "]"
             [] OTHER ->
                   /\ out = Stringify(fmtInput, 2, 0)
                   /\ Cardinality(breaks) >= Len(items) + 1
                   /\ SubSeq(out, 1, 2) = <<"[", "\n">>
                   /\ SubSeq(out, Len(out) - 1, Len(out)) = <<"\n", "]">>
                   /\ \A i \in breaks :
                         i < Len(out) - 1 => SubSeq(out, i + 1, i + 2) = <<" ", " ">>

\* an array of six numbers is rendered on eight lines, and an array holding
\* a function on one
C23_Witness ==
    /\ IsArrayCall
    /\ \/ /\ fmtInput = Arr([i \in 1..6 |-> Num(1)])
          /\ Cardinality({i \in DOMAIN fmtOutput.v.s : fmtOutput.v.s[i] = "\n"}) = 7
       \/ /\ fmtInput = Arr(<<Fn(<<"(", ")", "=", ">", "1">>)>>)
          /\ fmtOutput.v.s = <<"[", "null", "]">>

(***************************************************************************)
(* C24: detectDelimiter counts commas, tabs, pipes and semicolons in the   *)
(* first line.  When the most frequent of tab, pipe and semicolon occurs   *)
(* at all and at least as often as the comma, it is the delimiter (any of  *)
(* the most frequent, when several are); otherwise the comma is, if one    *)
(* occurs; otherwise the multi-space pattern is, if the line has a run of  *)
(* two or more whitespace characters.                                      *)
(***************************************************************************)
C24_MostFrequentDelimiter ==
    IsCall("detectDelimiter") =>
        LET firstLine == SplitLines(Trim(fmtInput.s), <<>>)[1]
            Occurrences(d) == Cardinality({i \in DOMAIN firstLine : firstLine[i] = d})
            others == {"\t", "|", ";"}
            most == CHOOSE n \in {Occurrences(d) : d \in others} :
                        \A d \in others : Occurrences(d) <= n
            delimiter == fmtOutput.v IN
        IF most > 0 /\ most >= Occurrences(",")
        THEN delimiter \in others /\ Occurrences(delimiter) = most
        ELSE IF Occurrences(",") > 0 THEN delimiter = ","
        ELSE (\E i \in DOMAIN firstLine : IsSpace(firstLine[i]) /\ IsSpace(At(firstLine, i + 1)))
                 => delimiter = "\\s{2,}"

(***************************************************************************)
(* C25 as stated: formatClean splits on LF, CRLF and lone CR alike, so in  *)
(* its output no carriage return remains, no line ends with whitespace and *)
(* the text does not end with an empty line.                               *)
(***************************************************************************)
EndsWithSpace(line) == line # <<>> /\ IsSpace(line[Len(line)])

C25_Original ==
    IsCall("formatClean") =>
        LET out == fmtOutput.v.s IN
        /\ ~Includes(out, "\r")
        /\ \A i \in DOMAIN out : (out[i] = "\n" /\ i > 1) => out[i - 1] \notin {" ", "\t"}
        /\ ~EndsWithSpace(out)

(***************************************************************************)
(* C25: formatClean splits on LF and CRLF and rejoins with a single LF; a  *)
(* carriage return that no LF follows is no line ending to it and stays    *)
(* where it is, unless it is part of the whitespace a line ends with.  The *)
(* lines of the output are the lines of the input, in order, each without  *)
(* the whitespace it ended with and with the whitespace it began with,     *)
(* empty lines between them included, up to the last line that is not      *)
(* blank; so no line of the output ends with whitespace, no CR stands      *)
(* before a LF, and the output does not end with an empty line.            *)
(***************************************************************************)
LinesOf(text) == IF text = <<>> THEN <<>> ELSE SplitLines(text, <<>>)

C25_CleanLines ==
    IsCall("formatClean") =>
        LET out == fmtOutput.v.s
            in == LinesOf(fmtInput.s)
            lines == LinesOf(out) IN
        /\ \A i \in DOMAIN out : out[i] = "\r" => i < Len(out) /\ out[i + 1] # "\n"
        /\ \A i \in DOMAIN lines : ~EndsWithSpace(lines[i])
        /\ out # <<>> => lines[Len(lines)] # <<>>
        /\ Len(lines) <= Len(in)
        /\ \A i \in DOMAIN lines :
              \E n \in 0..Len(in[i]) :
                  /\ lines[i] = SubSeq(in[i], 1, n)
                  /\ \A j \in (n + 1)..Len(in[i]) : IsSpace(in[i][j])
        /\ \A i \in (Len(lines) + 1)..Len(in) : \A j \in DOMAIN in[i] : IsSpace(in[i][j])

\* a lone CR stays inside its line, and the CRLF at the end goes
C25_Witness ==
    /\ IsCall("formatClean")
    /\ fmtInput.s = <<"a", "\r", "a", "\n">>
    /\ fmtOutput.v.s = <<"a", "\r", "a">>

(***************************************************************************)
(* C26: formatText(text, "auto") returns a result, with format "json",     *)
(* exactly when the trimmed text starts with { and ends with }, or starts  *)
(* with [ and ends with ], and parses as JSON; for every other text, JSON  *)
(* scalars and bracketed text that does not parse included, it fails with  *)
(* UnsupportedFormat{unknown} and gives no text.                           *)
(***************************************************************************)
IsAutoCall == IsCall("formatText") /\ fmtOutput.arg.s = FormatAuto

Bracketed(text) ==
    /\ text # <<>>
    /\ \/ Head(text) = "{" /\ text[Len(text)] = "}"
       \/ Head(text) = "[" /\ text[Len(text)] = "]"

C26_AutoDetection ==
    IsAutoCall =>
        LET trimmed == Trim(fmtInput.s) IN
        IF Bracketed(trimmed) /\ JsonParse(trimmed).ok
        THEN /\ fmtOutput.ok
             /\ fmtOutput.v.format = Str(FormatJson)
             /\ fmtOutput.v.text.t = "string"
        ELSE /\ ~fmtOutput.ok
             /\ fmtOutput.v = Err(UNSUPPORTED_FORMAT(FormatUnknown))

\* bracketed text that does not parse has been refused as unknown
C26_Witness ==
    /\ IsAutoCall
    /\ fmtInput.s = <<"[", "1", ",", "]">>
    /\ ~fmtOutput.ok
    /\ fmtOutput.v.message = UNSUPPORTED_FORMAT(FormatUnknown)

(***************************************************************************)
(* C27: after construction and after every registerExecutor and            *)
(* setDefaultLanguage call, failed ones included, the default language is  *)
(* a key of the executor registry; so an execute call without a language   *)
(* override always finds an executor and never fails with                  *)
(* "Unsupported language".                                                 *)
(***************************************************************************)
C27_DefaultIsRegistered ==
    /\ defaultLanguage.t = "string"
    /\ defaultLanguage.s \in DOMAIN executors
    /\ \A c \in Calls :
          (calls[c].pc # "idle" /\ Falsy(calls[c].language)) =>
              /\ calls[c].executor # NoExecutor
              /\ (Finished(c) /\ calls[c].outcome.ok /\ ~calls[c].outcome.v.success) =>
                    calls[c].outcome.v.error # Str(UNSUPPORTED_LANGUAGE(Str(<<"default">>)))

\* the default was moved to a newly registered executor, and a call without
\* override ran on it
C27_Witness ==
    /\ regLog # <<>>
    /\ defaultLanguage = Str(NameRb)
    /\ ~setDefaultResult.threw
    /\ \E c \in Calls :
          /\ Finished(c)
          /\ calls[c].language = Null
          /\ calls[c].executor = "ruby"

(***************************************************************************)
(* C28 as stated: when execute returns a successful Outcome to its caller, *)
(* the results slot holds that Outcome's formattedResult, whatever other   *)
(* execute calls are in flight.                                            *)
(***************************************************************************)
\* in this step the caller of c receives a successful Outcome
ReturnsSuccess(c) ==
    /\ calls[c].pc # "returned"
    /\ calls'[c].pc = "returned"
    /\ calls'[c].outcome.ok
    /\ calls'[c].outcome.v.success

C28_Original ==
    [][\A c \in Calls :
          ReturnsSuccess(c) => keyBuffer' = <<calls'[c].outcome.v.formattedResult>>
      ]_vars

(***************************************************************************)
(* C28: when execute returns a successful Outcome to its caller, the call  *)
(* has written its formattedResult to the results slot once, and the slot  *)
(* holds the last successful write: this Outcome's formattedResult if no   *)
(* other call has written since, and otherwise the formatted result of the *)
(* call that wrote last, whose executor returned normally and which has    *)
(* returned that text in a successful Outcome or is about to.              *)
(***************************************************************************)
C28_SlotAtReturn ==
    [][\A c \in Calls :
          ReturnsSuccess(c) =>
              LET mine == {i \in DOMAIN storeLog' : storeLog'[i].call = c}
                  own == CHOOSE i \in mine : TRUE
                  last == storeLog'[Len(storeLog')] IN
              /\ Cardinality(mine) = 1
              /\ storeLog'[own].text = calls'[c].outcome.v.formattedResult
              /\ keyBuffer' = <<last.text>>
              /\ IF own = Len(storeLog')
                 THEN keyBuffer' = <<calls'[c].outcome.v.formattedResult>>
                 ELSE LET writer == calls'[last.call] IN
                      /\ last.call # c
                      /\ writer.settled.ok
                      /\ last.text = formatResult(writer.settled.v)
                      /\ writer.pc \in {"storing", "executed", "finished", "returned"}
                      /\ writer.pc = "storing" => writer.stored.ok
                      /\ writer.pc # "storing" =>
                             /\ writer.outcome.ok
                             /\ writer.outcome.v.success
                             /\ writer.outcome.v.formattedResult = last.text
      ]_vars

\* the first call has returned its successful Outcome after the second
\* call's write, and the slot holds the second call's result
C28_Witness ==
    /\ MaxCalls >= 2
    /\ calls[1].pc = "returned" /\ Succeeded(1)
    /\ Succeeded(2)
    /\ Len(storeLog) = 2
    /\ storeLog[1].call = 1 /\ storeLog[2].call = 2
    /\ calls[1].outcome.v.formattedResult # calls[2].outcome.v.formattedResult
    /\ keyBuffer = <<calls[2].outcome.v.formattedResult>>

(***************************************************************************)
(* A sequential run: each execute call is made once the call before it has *)
(* returned, with clearResults() calls in between.  The programs give a    *)
(* number, the empty string, a blank string, and an error.                 *)
(***************************************************************************)
SequentialCodes == {Str(SrcAdd), Str(SrcEmpty), Str(SrcBlank), Str(SrcX)}

NextSequential ==
    \/ /\ microtasks = <<>>
       /\ \E c \in Calls, code \in SequentialCodes : Execute(c, code, Null)
    \/ /\ microtasks = <<>>
       /\ \E storeOk \in BOOLEAN : clearResults(storeOk)
    \/ \E c \in Calls, storeOk \in BOOLEAN : EngineResume(c, storeOk)
    \/ \E c \in Calls : StoreResume(c)
    \/ \E c \in Calls : CallerResume(c)

SpecSequential == InitStore /\ [][NextSequential]_vars

\* the step is one in which call c's storeResult wrote text
StoreWroteText(c, text) == storeLog' = Append(storeLog, [call |-> c, text |-> text])

\* some character of text is no whitespace
HasVisibleText(text) == \E i \in DOMAIN text : ~IsSpace(text[i])

\* the slot changes only by a clearResults() that returns normally and by
\* the store write of a later call whose executor returned normally
SlotKeptUntilCleared ==
    keyBuffer' # keyBuffer =>
        \/ storeOps' # storeOps /\ fmtOutput'.ok
        \/ \E c \in Calls :
              /\ calls[c].pc = "queued" /\ calls'[c].pc = "storing"
              /\ calls[c].settled.ok /\ calls'[c].stored.ok
              /\ StoreWroteText(c, formatResult(calls[c].settled.v))

(***************************************************************************)
(* C29 as stated: in a sequential run, once execute has returned a         *)
(* successful Outcome and until clearResults is called, hasResults() is    *)
(* true and getCurrentResult() is the Outcome's formattedResult, also when *)
(* that string is empty or blank.                                          *)
(***************************************************************************)
C29_Original ==
    [][/\ \A c \in Calls :
             ReturnsSuccess(c) =>
                 /\ hasResults'
                 /\ getCurrentResult' = Str(calls'[c].outcome.v.formattedResult)
       /\ SlotKeptUntilCleared
      ]_vars

(***************************************************************************)
(* C29: in a sequential run, once execute has returned a successful        *)
(* Outcome and until clearResults is called or another execute succeeds,   *)
(* getCurrentResult() is the Outcome's formattedResult, whatever string    *)
(* that is, and hasResults() is true exactly when that string has a        *)
(* character that is no whitespace: after a result that formats to the     *)
(* empty or a blank string hasResults() is false.                          *)
(***************************************************************************)
C29_StoredResultReadBack ==
    [][/\ \A c \in Calls :
             ReturnsSuccess(c) =>
                 /\ getCurrentResult' = Str(calls'[c].outcome.v.formattedResult)
                 /\ hasResults' <=> HasVisibleText(calls'[c].outcome.v.formattedResult)
       /\ SlotKeptUntilCleared
      ]_vars

\* a program that gives a blank string has returned successfully: the slot
\* holds the blank string and hasResults() is false
C29_Witness ==
    \E c \in Calls :
        /\ calls[c].pc = "returned" /\ Succeeded(c)
        /\ calls[c].code = Str(SrcBlank)
        /\ microtasks = <<>>
        /\ getCurrentResult = Str(<<" ">>)
        /\ ~hasResults

\* execute's continuation after the executor returned normally calls
\* storeResult for call c
StoresAfterExecutorOk(c) ==
    /\ HeadIs("engine", c)
    /\ calls[c].settled.ok
    /\ calls'[c].pc # calls[c].pc

\* execute settles its Outcome for call c, whose executor returned normally
ReturnsAfterExecutorOk(c) ==
    /\ HeadIs("store", c)
    /\ calls[c].settled.ok
    /\ calls'[c].pc # calls[c].pc

\* the texts call c's storeResult has written
WrittenBy(c) == {storeLog[i].text : i \in WritesOf(c)}

\* the Outcome is the successful one for the executor's value
SuccessOutcomeFor(outcome, rawResult) ==
    /\ outcome.ok
    /\ outcome.v.success
    /\ outcome.v.rawResult = rawResult
    /\ outcome.v.formattedResult = formatResult(rawResult)

(***************************************************************************)
(* C30 as stated: the success flag depends on the executor alone: whenever *)
(* the executor returned normally, execute's Outcome has success=true with *)
(* the rawResult and its formattedResult, also when the write to the       *)
(* results slot failed.                                                    *)
(***************************************************************************)
C30_Original ==
    [][\A c \in Calls :
          ReturnsAfterExecutorOk(c) =>
              SuccessOutcomeFor(calls'[c].outcome, calls[c].settled.v)
      ]_vars

(***************************************************************************)
(* C30: the success flag depends on the executor and on the store write:   *)
(* when the executor returned normally, the Outcome has success=true with  *)
(* the rawResult and its formattedResult exactly when storeResult wrote    *)
(* the formatted result; when storeResult threw, nothing was written, the  *)
(* slot kept its content, and the Outcome is a failed one with the store   *)
(* error's message, "Error: " and that message as formattedResult, and no  *)
(* rawResult.                                                              *)
(***************************************************************************)
C30_SuccessNeedsStoreWrite ==
    [][\A c \in Calls :
          /\ StoresAfterExecutorOk(c) =>
                 \/ StoreWroteText(c, formatResult(calls[c].settled.v))
                 \/ storeLog' = storeLog /\ keyBuffer' = keyBuffer
          /\ ReturnsAfterExecutorOk(c) =>
                 LET raw == calls[c].settled.v
                     outcome == calls'[c].outcome IN
                 \/ /\ WrittenBy(c) = {formatResult(raw)}
                    /\ SuccessOutcomeFor(outcome, raw)
                 \/ /\ WrittenBy(c) = {}
                    /\ outcome.ok
                    /\ ~outcome.v.success
                    /\ outcome.v.error = Str(StoreError.message)
                    /\ outcome.v.formattedResult = <<"Error: ">> \o StoreError.message
                    /\ "rawResult" \notin DOMAIN outcome.v
      ]_vars

\* 1+1 evaluated to 2, the store write failed, and the caller got a failed
\* Outcome while the slot is still empty
C30_Witness ==
    \E c \in Calls :
        /\ calls[c].pc = "returned"
        /\ calls[c].code = Str(SrcAdd)
        /\ calls[c].settled = Fulfilled(Num(2))
        /\ calls[c].outcome.ok
        /\ ~calls[c].outcome.v.success
        /\ calls[c].outcome.v.error = Str(StoreError.message)
        /\ keyBuffer = <<>>

====
